---- MODULE Spec2Model ----
(***************************************************************************)
(* Model of the allocation & transaction integrity engine of the budget    *)
(* repository: class ValidationService                                     *)
(* (packages/core/src/services/validation) together with the zod schemas   *)
(* of packages/core/src/models that it calls.                              *)
(*                                                                         *)
(* Numbers.  JavaScript numbers are modelled as integers of a fixed-point  *)
(* grid: money is counted in half cents (0.005), so that 0.01 is 2 units   *)
(* and there is a value strictly inside the tolerance; proportions are     *)
(* counted in units of 0.00005, so that 1.0 is 20000 units, 0.0001 is 2    *)
(* units and 0.001 is 20 units.  Rounding error of binary floating point   *)
(* is outside the model.                                                   *)
(*                                                                         *)
(* Every validator is a function of its arguments (and, for the date       *)
(* checks, of the clock).  A behaviour starts with one pending call, op    *)
(* applied to arg, lets the clock advance, and then runs the call, which   *)
(* stores what the call returns in res.                                    *)
(***************************************************************************)
EXTENDS Integers, Sequences, FiniteSets, TLC

VARIABLES
    op,     \* the ValidationService method of the pending call
    arg,    \* its argument (a record of the arguments when there are several)
    res,    \* what the call returned, NoResult before it ran
    now,    \* the clock read by new Date()
    pc      \* "call" before the method ran, "done" after

vars == <<op, arg, res, now, pc>>

(***************************************************************************)
(* Bounds of the model.                                                    *)
(***************************************************************************)
MaxItems == 2       \* longest item list of a breakdown / allocation list of a strategy
MaxNow == 2         \* last tick of the clock

PoolIds == {"pool1", "pool2"}
ChannelIds == {"channel1", "channel2"}

\* all sequences over S of length at most n
SeqsUpTo(S, n) == UNION {[1..k -> S] : k \in 0..n}

Abs(x) == IF x < 0 THEN 0 - x ELSE x
Min(a, b) == IF a < b THEN a ELSE b
Max(a, b) == IF a > b THEN a ELSE b

\* n dollars in half cents
Dollars(n) == n * 200

(***************************************************************************)
(* JavaScript values that are not objects.                                 *)
(***************************************************************************)
Null == [tag |-> "null"]
Undefined == [tag |-> "undefined"]
IsObject(v) == v.tag = "object"

(***************************************************************************)
(* ValidationResult and ValidationError.  A field that the code does not   *)
(* set is NoField.                                                         *)
(***************************************************************************)
NoField == "-"
NoResult == [tag |-> "none"]
\* the call ended with an exception (a TypeError) instead of a result
Threw == [tag |-> "threw"]
Err(code, field) == [code |-> code, field |-> field]
Result(errors) == [isValid |-> Len(errors) = 0, errors |-> errors]
\* variant: the early return of a failed shape check carries no error
Invalid_NoErrors(errors) == [isValid |-> FALSE, errors |-> <<>>]
\* the early return of a failed shape check: { isValid: false, errors }
Invalid(errors) == [isValid |-> FALSE, errors |-> errors]

\* the codes of an error list, in order
Codes(errors) == [i \in DOMAIN errors |-> errors[i].code]
\* number of errors of the list that satisfy a (code, field) pair
CountErr(errors, code, field) ==
    Cardinality({i \in DOMAIN errors : errors[i] = Err(code, field)})
HasErr(errors, code, field) == \E i \in DOMAIN errors : errors[i] = Err(code, field)
HasCode(errors, code) == \E i \in DOMAIN errors : errors[i].code = code

(***************************************************************************)
(* What every specification shares: a call is pending, the clock runs.     *)
(***************************************************************************)
InitCommon ==
    /\ res = NoResult
    /\ now = 1
    /\ pc = "call"

\* the clock advances while a call is pending
Tick ==
    /\ pc = "call"
    /\ now < MaxNow
    /\ now' = now + 1
    /\ UNCHANGED <<op, arg, res, pc>>

\* the call of method o has returned
Done(o) == pc = "done" /\ op = o

(***************************************************************************)
(* Tolerances.                                                             *)
(***************************************************************************)
\* ValidationService.ALLOCATION_TOLERANCE = 0.01
ALLOCATION_TOLERANCE == 2
\* ValidationService.PERCENTAGE_TOLERANCE = 0.0001
PERCENTAGE_TOLERANCE == 2
\* the literal 0.01 of the sum refinement of AllocationBreakdownSchema
BREAKDOWN_SCHEMA_TOLERANCE == 2
\* the literal 0.001 of the sum refinement of AllocationStrategySchema
STRATEGY_SCHEMA_TOLERANCE == 20
\* the proportion 1.0
ONE == 20000

(***************************************************************************)
(* AllocationBreakdown: { items: [{poolId, amount}], totalAmount }.        *)
(***************************************************************************)
Item(p, a) == [poolId |-> p, amount |-> a]
Breakdown(items, total) == [tag |-> "object", items |-> items, totalAmount |-> total]

\* items.reduce((sum, item) => sum + item.amount, 0)
RECURSIVE SumAmount(_)
SumAmount(items) ==
    IF items = <<>> THEN 0
    ELSE SumAmount(SubSeq(items, 1, Len(items) - 1)) + items[Len(items)].amount

\* items.map(i => i.poolId)
PoolIdsOf(items) == [i \in DOMAIN items |-> items[i].poolId]
\* new Set(ids)
SetOf(ids) == {ids[i] : i \in DOMAIN ids}
\* poolIds.length === uniquePoolIds.size
AllDistinct(ids) == Len(ids) = Cardinality(SetOf(ids))

\* variant: the sum refinement compares with === and allows no tolerance
AllocationBreakdownSchema_ExactSum(b) ==
    /\ IsObject(b)
    /\ Len(b.items) >= 1
    /\ SumAmount(b.items) = b.totalAmount
    /\ AllDistinct(PoolIdsOf(b.items))

\* AllocationBreakdownSchema.safeParse(b).success
AllocationBreakdownSchema(b) ==
    /\ IsObject(b)
    /\ Len(b.items) >= 1
    /\ Abs(SumAmount(b.items) - b.totalAmount) < BREAKDOWN_SCHEMA_TOLERANCE
    /\ AllDistinct(PoolIdsOf(b.items))

\* variant: the loop breaks after the first negative item
NegativeItemErrors_FirstOnly(items) ==
    IF \E i \in DOMAIN items : items[i].amount < 0
    THEN LET first == CHOOSE i \in DOMAIN items :
                         /\ items[i].amount < 0
                         /\ \A j \in 1..(i - 1) : items[j].amount >= 0
         IN  <<Err("ALLOCATION_NEGATIVE_AMOUNT", "items." \o items[first].poolId \o ".amount")>>
    ELSE <<>>

\* the loop over breakdown.items of validateAllocationBreakdown
RECURSIVE NegativeItemErrors(_)
NegativeItemErrors(items) ==
    IF items = <<>> THEN <<>>
    ELSE LET item == Head(items)
         IN  (IF item.amount < 0
              THEN <<Err("ALLOCATION_NEGATIVE_AMOUNT", "items." \o item.poolId \o ".amount")>>
              ELSE <<>>)
             \o NegativeItemErrors(Tail(items))

\* the check of breakdown.totalAmount of validateAllocationBreakdown
TotalAmountErrors(b) ==
    IF b.totalAmount <= 0
    THEN <<Err("ALLOCATION_NEGATIVE_AMOUNT", "totalAmount")>>
    ELSE <<>>

\* variant: a failed shape check is recorded but does not return; the loop
\* over breakdown.items then reads a property of null or undefined
validateAllocationBreakdown_NoShortCircuit(b) ==
    IF AllocationBreakdownSchema(b)
    THEN Result(NegativeItemErrors(b.items) \o TotalAmountErrors(b))
    ELSE IF ~IsObject(b) THEN Threw
    ELSE Result(<<Err("SCHEMA_VALIDATION_FAILED", NoField)>>
                \o NegativeItemErrors(b.items) \o TotalAmountErrors(b))

\* ValidationService.validateAllocationBreakdown
validateAllocationBreakdown(b) ==
    IF ~AllocationBreakdownSchema(b)
    THEN Invalid(<<Err("SCHEMA_VALIDATION_FAILED", NoField)>>)
    ELSE Result(NegativeItemErrors(b.items) \o TotalAmountErrors(b))

(***************************************************************************)
(* AllocationStrategy: { id, ..., allocations: [{poolId, proportion}],     *)
(* isActive }.  Of the scalar fields of the schema (id, budgetId, name,    *)
(* effectiveFrom, createdAt, updatedAt) the model carries id; the others   *)
(* are held at shape-valid values.                                         *)
(***************************************************************************)
PoolAllocation(p, x) == [poolId |-> p, proportion |-> x]
Strategy(id, allocations, isActive) ==
    [tag |-> "object", id |-> id, allocations |-> allocations, isActive |-> isActive]

\* allocations.reduce((sum, allocation) => sum + allocation.proportion, 0)
RECURSIVE SumProportion(_)
SumProportion(allocations) ==
    IF allocations = <<>> THEN 0
    ELSE SumProportion(SubSeq(allocations, 1, Len(allocations) - 1))
         + allocations[Len(allocations)].proportion

\* PoolAllocationSchema: proportion is a number in [0, 1]
PoolAllocationSchema(a) == a.proportion >= 0 /\ a.proportion <= ONE

\* AllocationStrategySchema.safeParse(s).success
AllocationStrategySchema(s) ==
    /\ IsObject(s)
    /\ s.id # ""
    /\ Len(s.allocations) >= 1
    /\ \A i \in DOMAIN s.allocations : PoolAllocationSchema(s.allocations[i])
    /\ Abs(SumProportion(s.allocations) - ONE) < STRATEGY_SCHEMA_TOLERANCE
    /\ AllDistinct(PoolIdsOf(s.allocations))

\* the duplicate check of validateAllocationStrategy
DuplicatePoolErrors(allocations) ==
    IF ~AllDistinct(PoolIdsOf(allocations))
    THEN <<Err("ALLOCATION_DUPLICATE_POOL", NoField)>>
    ELSE <<>>

\* variant: the sum check uses >= and rejects a difference of exactly 0.0001
ProportionSumErrors_Strict(allocations) ==
    IF Abs(SumProportion(allocations) - ONE) >= PERCENTAGE_TOLERANCE
    THEN <<Err("ALLOCATION_SUM_INVALID", "allocations")>>
    ELSE <<>>

\* the sum check of validateAllocationStrategy
ProportionSumErrors(allocations) ==
    IF Abs(SumProportion(allocations) - ONE) > PERCENTAGE_TOLERANCE
    THEN <<Err("ALLOCATION_SUM_INVALID", "allocations")>>
    ELSE <<>>

\* the loop over strategy.allocations of validateAllocationStrategy
RECURSIVE ProportionRangeErrors(_)
ProportionRangeErrors(allocations) ==
    IF allocations = <<>> THEN <<>>
    ELSE LET a == Head(allocations)
             field == "allocations." \o a.poolId \o ".proportion"
         IN  (IF a.proportion < 0
              THEN <<Err("ALLOCATION_NEGATIVE_AMOUNT", field)>> ELSE <<>>)
             \o (IF a.proportion > ONE
                 THEN <<Err("ALLOCATION_SUM_INVALID", field)>> ELSE <<>>)
             \o ProportionRangeErrors(Tail(allocations))

\* ValidationService.validateAllocationStrategy
validateAllocationStrategy(s) ==
    IF ~AllocationStrategySchema(s)
    THEN Invalid(<<Err("SCHEMA_VALIDATION_FAILED", NoField)>>)
    ELSE IF Len(s.allocations) = 0
    THEN Invalid(<<Err("ALLOCATION_EMPTY", NoField)>>)
    ELSE Result(DuplicatePoolErrors(s.allocations)
                \o ProportionSumErrors(s.allocations)
                \o ProportionRangeErrors(s.allocations))

(***************************************************************************)
(* The allocation validator: inputs and calls.                             *)
(***************************************************************************)
\* item amounts: -100 and 50 and 100 dollars, and values around zero
ItemAmounts == {Dollars(-100), -1, 0, 1, Dollars(50), Dollars(100)}
\* totalAmount is taken around the sum of the items
TotalDeltas == {-3, -2, -1, 0, 1, 2, 3}

BreakdownItems == SeqsUpTo([poolId : PoolIds, amount : ItemAmounts], MaxItems)
BreakdownArgs ==
    {Null, Undefined}
    \cup {Breakdown(items, SumAmount(items) + d) : items \in BreakdownItems, d \in TotalDeltas}

\* proportions: -0.5, 0, 0.3, 0.4, 0.6, 1.0, 1.5 and values around 0.6 and 1.0
Proportions ==
    {-10000, 0, 6000, 8000, 12000, 12002, 12003, 12020,
     19980, 19997, 19998, 20000, 20001, 30000}
StrategyArgs ==
    {Null}
    \cup {Strategy(id, al, TRUE) :
            id \in {"", "strategy1"},
            al \in SeqsUpTo([poolId : PoolIds, proportion : Proportions], MaxItems)}

\* variant: the available balance is compared without the tolerance
validatePoolAllocation_NoTolerance(poolId, amount, availableBalance) ==
    Result((IF amount < 0
            THEN <<Err("ALLOCATION_NEGATIVE_AMOUNT", "amount")>> ELSE <<>>)
           \o (IF amount > availableBalance
               THEN <<Err("ALLOCATION_EXCEEDS_BALANCE", "amount")>> ELSE <<>>))

\* ValidationService.validatePoolAllocation
validatePoolAllocation(poolId, amount, availableBalance) ==
    Result((IF amount < 0
            THEN <<Err("ALLOCATION_NEGATIVE_AMOUNT", "amount")>> ELSE <<>>)
           \o (IF amount > availableBalance + ALLOCATION_TOLERANCE
               THEN <<Err("ALLOCATION_EXCEEDS_BALANCE", "amount")>> ELSE <<>>))

\* an amount around each available balance, and far from it on either side
PoolAllocationArgs ==
    UNION {{[poolId |-> "pool1", amount |-> a, availableBalance |-> b] :
               a \in {b + d : d \in -3..3}
                    \cup {Dollars(-50), -1, 0, 1, Dollars(100), Dollars(200)}} :
           b \in {Dollars(-50), -1, 0, Dollars(100), Dollars(150)}}

ValidatePoolAllocation ==
    /\ pc = "call"
    /\ op = "validatePoolAllocation"
    /\ res' = validatePoolAllocation(arg.poolId, arg.amount, arg.availableBalance)
    /\ pc' = "done"
    /\ UNCHANGED <<op, arg, now>>

ValidateAllocationBreakdown ==
    /\ pc = "call"
    /\ op = "validateAllocationBreakdown"
    /\ res' = validateAllocationBreakdown(arg)
    /\ pc' = "done"
    /\ UNCHANGED <<op, arg, now>>

ValidateAllocationStrategy ==
    /\ pc = "call"
    /\ op = "validateAllocationStrategy"
    /\ res' = validateAllocationStrategy(arg)
    /\ pc' = "done"
    /\ UNCHANGED <<op, arg, now>>

InitAllocation ==
    /\ InitCommon
    /\ \/ op = "validateAllocationBreakdown" /\ arg \in BreakdownArgs
       \/ op = "validateAllocationStrategy" /\ arg \in StrategyArgs
       \/ op = "validatePoolAllocation" /\ arg \in PoolAllocationArgs
NextAllocation ==
    \/ ValidateAllocationBreakdown
    \/ ValidateAllocationStrategy
    \/ ValidatePoolAllocation
SpecAllocation == InitAllocation /\ [][NextAllocation]_vars

(***************************************************************************)
(* Credit payment solver.  A Map<string, number> is a function whose       *)
(* domain is the set of its keys.                                          *)
(***************************************************************************)
\* map.get(key) ?? 0
GetOrZero(map, key) == IF key \in DOMAIN map THEN map[key] ELSE 0

\* variant: one global cap, min(total available, total debt), over the pools
\* of the source allocation
RECURSIVE SumOver(_, _)
SumOver(items, map) ==
    IF items = <<>> THEN 0
    ELSE GetOrZero(map, Head(items).poolId) + SumOver(Tail(items), map)
calculateMaxCreditPayment_GlobalMin(sourceAllocation, availableBalances, creditDebt) ==
    Max(0, Min(SumOver(sourceAllocation.items, availableBalances),
               SumOver(sourceAllocation.items, creditDebt)))

\* the loop of calculateMaxCreditPayment, maxPayment being the running sum
RECURSIVE MaxPaymentLoop(_, _, _, _)
MaxPaymentLoop(items, availableBalances, creditDebt, maxPayment) ==
    IF items = <<>> THEN maxPayment
    ELSE LET item == Head(items)
             availableInPool == GetOrZero(availableBalances, item.poolId)
             debtInPool == GetOrZero(creditDebt, item.poolId)
             maxForThisPool == Min(availableInPool, debtInPool)
         IN  MaxPaymentLoop(Tail(items), availableBalances, creditDebt,
                            maxPayment + Max(0, maxForThisPool))

\* ValidationService.calculateMaxCreditPayment
calculateMaxCreditPayment(sourceAllocation, availableBalances, creditDebt) ==
    MaxPaymentLoop(sourceAllocation.items, availableBalances, creditDebt, 0)

\* balances and debts: -50, 50, 80, 150 and 300 dollars
MapAmounts == {Dollars(-50), Dollars(50), Dollars(80), Dollars(150), Dollars(300)}
\* every map from some of the pools to an amount
PoolMaps == UNION {[keys -> MapAmounts] : keys \in SUBSET PoolIds}
SourceAllocations ==
    {Breakdown(items, SumAmount(items)) :
        items \in SeqsUpTo([poolId : PoolIds, amount : {Dollars(100), Dollars(200)}], MaxItems)}
CreditArgs ==
    [sourceAllocation : SourceAllocations, availableBalances : PoolMaps, creditDebt : PoolMaps]

CalculateMaxCreditPayment ==
    /\ pc = "call"
    /\ op = "calculateMaxCreditPayment"
    /\ res' = calculateMaxCreditPayment(arg.sourceAllocation, arg.availableBalances,
                                        arg.creditDebt)
    /\ pc' = "done"
    /\ UNCHANGED <<op, arg, now>>

InitCredit ==
    /\ InitCommon
    /\ op = "calculateMaxCreditPayment" /\ arg \in CreditArgs
NextCredit == CalculateMaxCreditPayment
SpecCredit == InitCredit /\ [][NextCredit]_vars

(***************************************************************************)
(* Transactions.  An income or expense carries channelId and               *)
(* allocationBreakdown; a transfer carries description, the two channel    *)
(* ids and the two allocations.  A field that is absent holds Undefined.   *)
(* The fields id, budgetId, createdAt, updatedAt, source and category are  *)
(* held at shape-valid values; id is carried for the messages.             *)
(***************************************************************************)
Income(id, channelId, amount, notes, date, breakdown) ==
    [tag |-> "object", type |-> "income", id |-> id, channelId |-> channelId,
     amount |-> amount, notes |-> notes, date |-> date,
     allocationBreakdown |-> breakdown]
Expense(id, channelId, amount, notes, date, breakdown) ==
    [tag |-> "object", type |-> "expense", id |-> id, channelId |-> channelId,
     amount |-> amount, notes |-> notes, date |-> date,
     allocationBreakdown |-> breakdown]
Transfer(id, src, dst, amount, notes, description, date, srcAlloc, dstAlloc) ==
    [tag |-> "object", type |-> "transfer", id |-> id,
     sourceChannelId |-> src, destinationChannelId |-> dst,
     amount |-> amount, notes |-> notes, description |-> description, date |-> date,
     sourceAllocation |-> srcAlloc, destinationAllocation |-> dstAlloc]

\* a value is truthy: if (transaction.allocationBreakdown)
Truthy(v) == IsObject(v)

(***************************************************************************)
(* Transaction validator.  A date is a tick of the clock, NoDate when the  *)
(* field is absent; notes is a string, NoNotes when the field is absent.   *)
(***************************************************************************)
NoDate == 0
NoNotes == "<undefined>"
\* s.trim(): a string of white space becomes the empty string
Trim(s) == IF s \in {" ", "  "} THEN "" ELSE s

\* BaseTransactionSchema: date is a Date, notes an optional string
BaseTransactionSchema(t) ==
    /\ IsObject(t)
    /\ t.id # ""
    /\ t.date # NoDate

\* IncomeTransactionSchema.safeParse(t).success
IncomeTransactionSchema(t) ==
    /\ BaseTransactionSchema(t)
    /\ t.type = "income"
    /\ t.channelId # ""
    /\ t.amount > 0
    /\ AllocationBreakdownSchema(t.allocationBreakdown)

\* ExpenseTransactionSchema.safeParse(t).success
ExpenseTransactionSchema(t) ==
    /\ BaseTransactionSchema(t)
    /\ t.type = "expense"
    /\ t.channelId # ""
    /\ t.amount > 0
    /\ AllocationBreakdownSchema(t.allocationBreakdown)

\* TransferTransactionSchema.safeParse(t).success
TransferTransactionSchema(t) ==
    /\ BaseTransactionSchema(t)
    /\ t.type = "transfer"
    /\ t.amount > 0
    /\ t.description # ""
    /\ t.sourceChannelId # ""
    /\ AllocationBreakdownSchema(t.sourceAllocation)
    /\ t.destinationChannelId # ""
    /\ AllocationBreakdownSchema(t.destinationAllocation)

\* the push of SCHEMA_VALIDATION_FAILED of the transaction validators
SchemaErrors(success) ==
    IF ~success THEN <<Err("SCHEMA_VALIDATION_FAILED", NoField)>> ELSE <<>>

\* transaction.notes, transaction.date: undefined when the object has no such
\* property (the argument is a Partial<...>)
NotesOf(t) == IF "notes" \in DOMAIN t THEN t.notes ELSE NoNotes
DateOf(t) == IF "date" \in DOMAIN t THEN t.date ELSE NoDate
\* !transaction.amount
AmountFalsy(t) == "amount" \notin DOMAIN t \/ t.amount = 0

\* variant: the checks stop at the first one that fails
validateTransaction_FirstOnly(t, clock) ==
    IF NotesOf(t) = NoNotes \/ Trim(NotesOf(t)) = ""
    THEN Result(<<Err("TRANSACTION_DESCRIPTION_EMPTY", "notes")>>)
    ELSE IF AmountFalsy(t) \/ t.amount <= 0
    THEN Result(<<Err("TRANSACTION_AMOUNT_INVALID", "amount")>>)
    ELSE IF DateOf(t) = NoDate \/ DateOf(t) > clock
    THEN Result(<<Err("TRANSACTION_DATE_INVALID", "date")>>)
    ELSE Result(<<>>)

\* ValidationService.validateTransaction, run when the clock shows clock
validateTransaction(t, clock) ==
    Result(
        (IF NotesOf(t) = NoNotes \/ Trim(NotesOf(t)) = ""
         THEN <<Err("TRANSACTION_DESCRIPTION_EMPTY", "notes")>> ELSE <<>>)
        \o (IF AmountFalsy(t) \/ t.amount <= 0
            THEN <<Err("TRANSACTION_AMOUNT_INVALID", "amount")>> ELSE <<>>)
        \o (IF DateOf(t) = NoDate
            THEN <<Err("TRANSACTION_DATE_INVALID", "date")>>
            ELSE IF DateOf(t) > clock
            THEN <<Err("TRANSACTION_DATE_INVALID", "date")>>
            ELSE <<>>))

\* variant: the comparison is >= and rejects a difference of exactly 0.01
AllocationMismatchErrors_Strict(allocation, amount, field) ==
    IF Abs(allocation.totalAmount - amount) >= ALLOCATION_TOLERANCE
    THEN <<Err("TRANSACTION_ALLOCATION_MISMATCH", field)>>
    ELSE <<>>

\* if (Math.abs(allocation.totalAmount - amount) > this.ALLOCATION_TOLERANCE)
\* errors.push(...), as written for allocationBreakdown, sourceAllocation and
\* destinationAllocation
AllocationMismatchErrors(allocation, amount, field) ==
    IF Abs(allocation.totalAmount - amount) > ALLOCATION_TOLERANCE
    THEN <<Err("TRANSACTION_ALLOCATION_MISMATCH", field)>>
    ELSE <<>>

\* the block if (allocation) { reconciliation; validateAllocationBreakdown }
AllocationErrors(allocation, amount, field) ==
    IF Truthy(allocation)
    THEN AllocationMismatchErrors(allocation, amount, field)
         \o validateAllocationBreakdown(allocation).errors
    ELSE <<>>

\* variant: a failed shape check of an income returns at once
validateIncomeTransaction_FailFast(income, clock) ==
    IF ~IncomeTransactionSchema(income)
    THEN Invalid(SchemaErrors(FALSE))
    ELSE Result(validateTransaction(income, clock).errors
                \o AllocationErrors(income.allocationBreakdown, income.amount,
                                    "allocationBreakdown"))

\* ValidationService.validateIncomeTransaction
validateIncomeTransaction(income, clock) ==
    Result(SchemaErrors(IncomeTransactionSchema(income))
           \o validateTransaction(income, clock).errors
           \o AllocationErrors(income.allocationBreakdown, income.amount,
                               "allocationBreakdown"))

\* ValidationService.validateExpenseTransaction
validateExpenseTransaction(expense, clock) ==
    Result(SchemaErrors(ExpenseTransactionSchema(expense))
           \o validateTransaction(expense, clock).errors
           \o AllocationErrors(expense.allocationBreakdown, expense.amount,
                               "allocationBreakdown"))

\* new Set(allocation?.items?.map((a) => a.poolId) || [])
PoolIdSet(allocation) ==
    IF Truthy(allocation) THEN SetOf(PoolIdsOf(allocation.items)) ELSE {}

\* variant: the pool ids are compared as lists, item by item
SamePoolsSelected_AsLists(transfer) ==
    /\ Truthy(transfer.sourceAllocation) = Truthy(transfer.destinationAllocation)
    /\ Truthy(transfer.sourceAllocation)
        => PoolIdsOf(transfer.sourceAllocation.items)
           = PoolIdsOf(transfer.destinationAllocation.items)

\* sourcePoolIds.size === destPoolIds.size &&
\* [...sourcePoolIds].every((id) => destPoolIds.has(id))
SamePoolsSelected(transfer) ==
    LET sourcePoolIds == PoolIdSet(transfer.sourceAllocation)
        destPoolIds == PoolIdSet(transfer.destinationAllocation)
    IN  /\ Cardinality(sourcePoolIds) = Cardinality(destPoolIds)
        /\ \A id \in sourcePoolIds : id \in destPoolIds

\* the self-transfer check of validateTransferTransaction
SelfTransferErrors(transfer) ==
    IF transfer.sourceChannelId = transfer.destinationChannelId
       /\ SamePoolsSelected(transfer)
    THEN <<Err("DATA_INTEGRITY_INVALID_STATE", "channels")>>
    ELSE <<>>

\* ValidationService.validateTransferTransaction
validateTransferTransaction(transfer, clock) ==
    Result(SchemaErrors(TransferTransactionSchema(transfer))
           \o validateTransaction(transfer, clock).errors
           \o SelfTransferErrors(transfer)
           \o AllocationErrors(transfer.sourceAllocation, transfer.amount,
                               "sourceAllocation")
           \o AllocationErrors(transfer.destinationAllocation, transfer.amount,
                               "destinationAllocation"))

\* variant: only a missing source allocation is reported, an empty item list
\* is let through
CreditSourceErrors_MissingOnly(transfer) ==
    IF ~Truthy(transfer.sourceAllocation)
    THEN <<Err("CREDIT_PAYMENT_INVALID_SOURCE", "sourceAllocation")>>
    ELSE <<>>

\* !transfer.sourceAllocation?.items || transfer.sourceAllocation.items.length === 0
CreditSourceErrors(transfer) ==
    IF ~Truthy(transfer.sourceAllocation)
       \/ Len(transfer.sourceAllocation.items) = 0
    THEN <<Err("CREDIT_PAYMENT_INVALID_SOURCE", "sourceAllocation")>>
    ELSE <<>>

\* ValidationService.validateCreditPayment
validateCreditPayment(transfer, clock) ==
    Result(validateTransferTransaction(transfer, clock).errors
           \o CreditSourceErrors(transfer))

(***************************************************************************)
(* The transaction validator: inputs and calls.                            *)
(***************************************************************************)
\* allocations of a transaction: absent, or items of 50 dollars each with a
\* total around their sum
TransactionAllocations ==
    {Undefined}
    \cup {Breakdown(items, SumAmount(items) + d) :
            items \in SeqsUpTo([poolId : PoolIds, amount : {Dollars(50)}], MaxItems),
            d \in {-3, 0, 1, 2}}
TransactionAmounts == {0, Dollars(50)}
TransactionDates == {NoDate} \cup (1..2)
\* the partial transactions handed to validateTransaction itself: any of
\* notes, description, amount and date may be missing
OptionalField(name, values) == {<<>>} \cup {name :> v : v \in values}
BaseTransactionArgs ==
    {[id |-> "trans1"] @@ n @@ x @@ a @@ d :
        n \in OptionalField("notes", {"", " ", "Test notes"}),
        x \in OptionalField("description", {"", "Test transaction"}),
        a \in OptionalField("amount", {Dollars(-1000), 0, 1, Dollars(100)}),
        d \in OptionalField("date", 1..2)}
IncomeArgs ==
    {Income("income1", "channel1", a, n, d, b) :
        a \in TransactionAmounts \cup {Dollars(-1000)}, n \in {NoNotes, " ", "Rent"},
        d \in TransactionDates, b \in TransactionAllocations}
ExpenseArgs ==
    {Expense("expense1", "channel1", a, n, d, b) :
        a \in TransactionAmounts \cup {Dollars(-1000)}, n \in {NoNotes, " ", "Rent"},
        d \in TransactionDates, b \in TransactionAllocations}
TransferArgs ==
    {Transfer("transfer1", "channel1", c, a, n, x, d, b, e) :
        c \in ChannelIds, a \in TransactionAmounts,
        n \in {NoNotes, "Rent"}, x \in {"", "Payment"}, d \in TransactionDates,
        b \in TransactionAllocations, e \in TransactionAllocations}

ValidateTransaction ==
    /\ pc = "call"
    /\ op = "validateTransaction"
    /\ res' = validateTransaction(arg, now)
    /\ pc' = "done"
    /\ UNCHANGED <<op, arg, now>>

\* the credit payments: transfers that carry a description
CreditPaymentArgs == {t \in TransferArgs : t.description # ""}

ValidateCreditPayment ==
    /\ pc = "call"
    /\ op = "validateCreditPayment"
    /\ res' = validateCreditPayment(arg, now)
    /\ pc' = "done"
    /\ UNCHANGED <<op, arg, now>>

ValidateIncomeTransaction ==
    /\ pc = "call"
    /\ op = "validateIncomeTransaction"
    /\ res' = validateIncomeTransaction(arg, now)
    /\ pc' = "done"
    /\ UNCHANGED <<op, arg, now>>

ValidateExpenseTransaction ==
    /\ pc = "call"
    /\ op = "validateExpenseTransaction"
    /\ res' = validateExpenseTransaction(arg, now)
    /\ pc' = "done"
    /\ UNCHANGED <<op, arg, now>>

ValidateTransferTransaction ==
    /\ pc = "call"
    /\ op = "validateTransferTransaction"
    /\ res' = validateTransferTransaction(arg, now)
    /\ pc' = "done"
    /\ UNCHANGED <<op, arg, now>>

InitTransaction ==
    /\ InitCommon
    /\ \/ op = "validateTransaction" /\ arg \in BaseTransactionArgs
       \/ op = "validateIncomeTransaction" /\ arg \in IncomeArgs
       \/ op = "validateExpenseTransaction" /\ arg \in ExpenseArgs
       \/ op = "validateTransferTransaction" /\ arg \in TransferArgs
       \/ op = "validateCreditPayment" /\ arg \in CreditPaymentArgs
NextTransaction ==
    \/ Tick
    \/ ValidateTransaction
    \/ ValidateIncomeTransaction
    \/ ValidateExpenseTransaction
    \/ ValidateTransferTransaction
    \/ ValidateCreditPayment
SpecTransaction == InitTransaction /\ [][NextTransaction]_vars

(***************************************************************************)
(* Import reconciliation pipeline.  The rows are untyped records: a field  *)
(* holds a JavaScript value, written as its typeof, with text for a string *)
(* and num for a number that is not NaN.                                   *)
(***************************************************************************)
MaxRows == 2

JsUndefined == [type |-> "undefined", text |-> "", num |-> 0]
JsNull == [type |-> "null", text |-> "", num |-> 0]
JsString(s) == [type |-> "string", text |-> s, num |-> 0]
JsNumber(n) == [type |-> "number", text |-> "", num |-> n]
JsNaN == [type |-> "NaN", text |-> "", num |-> 0]

\* !v
Falsy(v) ==
    \/ v.type \in {"undefined", "null", "NaN"}
    \/ v.type = "string" /\ v.text = ""
    \/ v.type = "number" /\ v.num = 0

\* isNaN(new Date(s).getTime()) is false for the ISO dates of the batches
ParsesAsDate(v) ==
    \/ v.type = "string" /\ v.text \in {"2024-01-15", "2024-01-16"}
    \/ v.type = "number"

ImportRow(date, description, amount, type) ==
    [date |-> date, description |-> description, amount |-> amount, type |-> type]

\* transaction.description.trim() throws a TypeError when description is a
\* truthy value that is not a string
TrimThrows(row) == ~Falsy(row.description) /\ row.description.type # "string"

ImportDateErrors(row) ==
    IF Falsy(row.date)
    THEN <<Err("IMPORT_MISSING_REQUIRED_FIELD", "date")>>
    ELSE IF ~ParsesAsDate(row.date)
    THEN <<Err("IMPORT_INVALID_DATE", "date")>>
    ELSE <<>>

ImportDescriptionErrors(row) ==
    IF Falsy(row.description) \/ Trim(row.description.text) = ""
    THEN <<Err("IMPORT_MISSING_REQUIRED_FIELD", "description")>>
    ELSE <<>>

\* variant: the last amount check rejects every amount that is not positive
ImportAmountErrors_RejectsNegative(row) ==
    IF row.amount.type \in {"undefined", "null"}
    THEN <<Err("IMPORT_MISSING_REQUIRED_FIELD", "amount")>>
    ELSE IF row.amount.type # "number"
    THEN <<Err("IMPORT_INVALID_AMOUNT", "amount")>>
    ELSE IF row.amount.num <= 0
    THEN <<Err("IMPORT_INVALID_AMOUNT", "amount")>>
    ELSE <<>>

ImportAmountErrors(row) ==
    IF row.amount.type \in {"undefined", "null"}
    THEN <<Err("IMPORT_MISSING_REQUIRED_FIELD", "amount")>>
    ELSE IF row.amount.type \notin {"number", "NaN"} \/ row.amount.type = "NaN"
    THEN <<Err("IMPORT_INVALID_AMOUNT", "amount")>>
    ELSE IF row.amount.num = 0
    THEN <<Err("IMPORT_INVALID_AMOUNT", "amount")>>
    ELSE <<>>

ImportTypeErrors(row) ==
    IF Falsy(row.type)
       \/ ~(row.type.type = "string"
            /\ row.type.text \in {"income", "expense", "transfer"})
    THEN <<Err("IMPORT_MISSING_REQUIRED_FIELD", "type")>>
    ELSE <<>>

\* variant: the checks of a row stop at the first one that fails
ImportRowErrors_FirstOnly(row) ==
    LET all == ImportDateErrors(row) \o ImportDescriptionErrors(row)
               \o ImportAmountErrors(row) \o ImportTypeErrors(row)
    IN  IF Len(all) > 1 THEN <<all[1]>> ELSE all

\* the errors of one row, in the order of the checks
ImportRowErrors(row) ==
    ImportDateErrors(row) \o ImportDescriptionErrors(row)
    \o ImportAmountErrors(row) \o ImportTypeErrors(row)

ImportResult(valid, invalid) ==
    [tag |-> "object", valid |-> valid, invalid |-> invalid]

\* the loop for (const transaction of importData) from row i on
RECURSIVE ImportLoop(_, _, _, _)
ImportLoop(importData, i, valid, invalid) ==
    IF i > Len(importData) THEN ImportResult(valid, invalid)
    ELSE LET transaction == importData[i]
             errors == ImportRowErrors(transaction)
         IN  IF TrimThrows(transaction) THEN Threw
             ELSE IF Len(errors) = 0
             THEN ImportLoop(importData, i + 1, Append(valid, transaction), invalid)
             ELSE ImportLoop(importData, i + 1, valid,
                             Append(invalid, [transaction |-> transaction,
                                              errors |-> errors]))

\* ValidationService.validateImportData
validateImportData(importData) == ImportLoop(importData, 1, <<>>, <<>>)

ImportDates == {JsUndefined, JsString("invalid-date"), JsString("2024-01-15")}
ImportDescriptions == {JsUndefined, JsString(" "), JsString("Test"), JsNumber(42)}
ImportAmounts ==
    {JsUndefined, JsNull, JsString("invalid"), JsNaN, JsNumber(0), JsNumber(100),
     JsNumber(-50)}
ImportTypes == {JsString("income"), JsString("invalid")}
\* the rows of a batch: every date, description and type around a sound
\* amount, every date, amount and type around a sound description, and every
\* amount in a row whose other fields all fail
ImportRows ==
    {ImportRow(d, x, JsNumber(100), t) :
        d \in ImportDates, x \in ImportDescriptions, t \in ImportTypes}
    \cup {ImportRow(d, JsString("Test"), a, t) :
            d \in ImportDates, a \in ImportAmounts, t \in ImportTypes}
    \cup {ImportRow(JsUndefined, JsString(" "), a, JsString("invalid")) :
            a \in ImportAmounts}

ValidateImportData ==
    /\ pc = "call"
    /\ op = "validateImportData"
    /\ res' = validateImportData(arg)
    /\ pc' = "done"
    /\ UNCHANGED <<op, arg, now>>

InitImport ==
    /\ InitCommon
    /\ op = "validateImportData"
    /\ arg \in SeqsUpTo(ImportRows, MaxRows)
NextImport == ValidateImportData
SpecImport == InitImport /\ [][NextImport]_vars

(***************************************************************************)
(* Balance consistency checker.  The amount of a balance is a JavaScript   *)
(* value, so that a balance can fail its shape check on it.                *)
(***************************************************************************)
MaxBalances == 2

PoolBalance(poolId, channelId, amount) ==
    [poolId |-> poolId, channelId |-> channelId, amount |-> amount]

\* PoolBalanceSchema.safeParse(balance).success; z.number() rejects NaN
PoolBalanceSchema(balance) ==
    /\ balance.poolId # ""
    /\ balance.channelId # ""
    /\ balance.amount.type = "number"

\* variant: the first shape-invalid balance ends the loop
RECURSIVE BalanceErrors_AbortOnShape(_)
BalanceErrors_AbortOnShape(balances) ==
    IF balances = <<>> THEN <<>>
    ELSE LET balance == Head(balances)
         IN  IF ~PoolBalanceSchema(balance)
             THEN <<Err("SCHEMA_VALIDATION_FAILED", NoField)>>
             ELSE (IF balance.amount.num < 0
                   THEN <<Err("BALANCE_NEGATIVE", "amount")>> ELSE <<>>)
                  \o BalanceErrors_AbortOnShape(Tail(balances))

\* for (const balance of balances) { shape check, continue; negative check }
RECURSIVE BalanceErrors(_)
BalanceErrors(balances) ==
    IF balances = <<>> THEN <<>>
    ELSE LET balance == Head(balances)
         IN  (IF ~PoolBalanceSchema(balance)
              THEN <<Err("SCHEMA_VALIDATION_FAILED", NoField)>>
              ELSE IF balance.amount.num < 0
              THEN <<Err("BALANCE_NEGATIVE", "amount")>>
              ELSE <<>>)
             \o BalanceErrors(Tail(balances))

\* ValidationService.validateBalanceConsistency
validateBalanceConsistency(balances) == Result(BalanceErrors(balances))

\* variant: a difference of exactly the tolerance is rejected
validatePoolChannelBalance_Strict(poolId, channelId, expectedAmount, actualAmount) ==
    Result(IF Abs(expectedAmount - actualAmount) >= ALLOCATION_TOLERANCE
           THEN <<Err("BALANCE_INCONSISTENT", NoField)>> ELSE <<>>)

\* ValidationService.validatePoolChannelBalance
validatePoolChannelBalance(poolId, channelId, expectedAmount, actualAmount) ==
    Result(IF Abs(expectedAmount - actualAmount) > ALLOCATION_TOLERANCE
           THEN <<Err("BALANCE_INCONSISTENT", NoField)>> ELSE <<>>)

CurrentBalance(id, balances) ==
    [tag |-> "object", id |-> id, balances |-> balances]
BalanceSnapshot(id, snapshotDate, balances) ==
    [tag |-> "object", id |-> id, snapshotDate |-> snapshotDate,
     balances |-> balances]

\* CurrentBalanceSchema.safeParse(currentBalance).success
CurrentBalanceSchema(currentBalance) ==
    /\ IsObject(currentBalance)
    /\ currentBalance.id # ""
    /\ \A i \in DOMAIN currentBalance.balances :
          PoolBalanceSchema(currentBalance.balances[i])

\* BalanceSnapshotSchema.safeParse(snapshot).success
BalanceSnapshotSchema(snapshot) ==
    /\ IsObject(snapshot)
    /\ snapshot.id # ""
    /\ snapshot.snapshotDate # NoDate
    /\ \A i \in DOMAIN snapshot.balances : PoolBalanceSchema(snapshot.balances[i])

\* variant: a current balance is rejected once the clock has moved on
validateCurrentBalance_ReadsClock(currentBalance) ==
    IF ~CurrentBalanceSchema(currentBalance)
    THEN Invalid(<<Err("SCHEMA_VALIDATION_FAILED", NoField)>>)
    ELSE Result((IF now > 1
                 THEN <<Err("TRANSACTION_DATE_INVALID", "lastUpdated")>>
                 ELSE <<>>)
                \o validateBalanceConsistency(currentBalance.balances).errors)

\* ValidationService.validateCurrentBalance
validateCurrentBalance(currentBalance) ==
    IF ~CurrentBalanceSchema(currentBalance)
    THEN Invalid(<<Err("SCHEMA_VALIDATION_FAILED", NoField)>>)
    ELSE Result(validateBalanceConsistency(currentBalance.balances).errors)

\* variant: a snapshot dated now is already in the future
SnapshotDateErrors_Strict(snapshot, clock) ==
    IF snapshot.snapshotDate >= clock
    THEN <<Err("TRANSACTION_DATE_INVALID", "snapshotDate")>>
    ELSE <<>>

\* if (snapshot.snapshotDate > new Date()) errors.push(...)
SnapshotDateErrors(snapshot, clock) ==
    IF snapshot.snapshotDate > clock
    THEN <<Err("TRANSACTION_DATE_INVALID", "snapshotDate")>>
    ELSE <<>>

\* ValidationService.validateBalanceSnapshot
validateBalanceSnapshot(snapshot, clock) ==
    IF ~BalanceSnapshotSchema(snapshot)
    THEN Invalid(<<Err("SCHEMA_VALIDATION_FAILED", NoField)>>)
    ELSE Result(SnapshotDateErrors(snapshot, clock)
                \o validateBalanceConsistency(snapshot.balances).errors)

(***************************************************************************)
(* The balance consistency checker: inputs and calls.                      *)
(***************************************************************************)
\* balances of a checking channel and of a credit channel; an empty pool id
\* and a NaN amount fail the shape check
BalanceAmounts == {JsNumber(Dollars(-100)), JsNumber(0), JsNumber(Dollars(1000)), JsNaN}
PoolBalances ==
    {PoolBalance(p, c, a) :
        p \in {"", "pool1"}, c \in {"channel1", "credit1"}, a \in BalanceAmounts}
BalanceLists == SeqsUpTo(PoolBalances, MaxBalances)
CurrentBalanceArgs ==
    {Null} \cup {CurrentBalance(id, b) : id \in {"", "balance1"}, b \in BalanceLists}
BalanceSnapshotArgs ==
    {Null} \cup {BalanceSnapshot(id, d, b) :
                    id \in {"", "snapshot1"}, d \in {NoDate} \cup (1..2),
                    b \in BalanceLists}

\* an actual amount around each expected amount, and far from it
PoolChannelBalanceArgs ==
    UNION {{[poolId |-> "pool1", channelId |-> "channel1",
             expectedAmount |-> e, actualAmount |-> a] :
               a \in {e + d : d \in -3..3} \cup {Dollars(-100), 0, Dollars(150)}} :
           e \in {Dollars(-100), 0, Dollars(100)}}

ValidatePoolChannelBalance ==
    /\ pc = "call"
    /\ op = "validatePoolChannelBalance"
    /\ res' = validatePoolChannelBalance(arg.poolId, arg.channelId,
                                         arg.expectedAmount, arg.actualAmount)
    /\ pc' = "done"
    /\ UNCHANGED <<op, arg, now>>

ValidateBalanceConsistency ==
    /\ pc = "call"
    /\ op = "validateBalanceConsistency"
    /\ res' = validateBalanceConsistency(arg)
    /\ pc' = "done"
    /\ UNCHANGED <<op, arg, now>>

ValidateCurrentBalance ==
    /\ pc = "call"
    /\ op = "validateCurrentBalance"
    /\ res' = validateCurrentBalance(arg)
    /\ pc' = "done"
    /\ UNCHANGED <<op, arg, now>>

ValidateBalanceSnapshot ==
    /\ pc = "call"
    /\ op = "validateBalanceSnapshot"
    /\ res' = validateBalanceSnapshot(arg, now)
    /\ pc' = "done"
    /\ UNCHANGED <<op, arg, now>>

InitBalance ==
    /\ InitCommon
    /\ \/ op = "validateBalanceConsistency" /\ arg \in BalanceLists
       \/ op = "validateCurrentBalance" /\ arg \in CurrentBalanceArgs
       \/ op = "validateBalanceSnapshot" /\ arg \in BalanceSnapshotArgs
       \/ op = "validatePoolChannelBalance" /\ arg \in PoolChannelBalanceArgs
NextBalance ==
    \/ Tick
    \/ ValidateBalanceConsistency
    \/ ValidateCurrentBalance
    \/ ValidateBalanceSnapshot
    \/ ValidatePoolChannelBalance
SpecBalance == InitBalance /\ [][NextBalance]_vars

(***************************************************************************)
(* Budget integrity checker.                                               *)
(***************************************************************************)
Pool(id, isActive) == [id |-> id, isActive |-> isActive]
Channel(id, isActive) == [id |-> id, isActive |-> isActive]

\* variant: the isActive filter is missing
ActiveIds_NoFilter(list) == {list[i].id : i \in DOMAIN list}
\* new Set(list.filter((e) => e.isActive).map((e) => e.id))
ActiveIds(list) == {list[i].id : i \in {j \in DOMAIN list : list[j].isActive}}

\* the error pushed for a reference that misses its set; ref is the id that
\* the details of the error name
OrphanedReference(ref) ==
    [code |-> "DATA_INTEGRITY_ORPHANED_REFERENCE", field |-> NoField, ref |-> ref]

\* for (const item of items) if (!poolIds.has(item.poolId)) errors.push(...)
RECURSIVE OrphanedPoolErrors(_, _)
OrphanedPoolErrors(items, poolIds) ==
    IF items = <<>> THEN <<>>
    ELSE (IF Head(items).poolId \notin poolIds
          THEN <<OrphanedReference(Head(items).poolId)>> ELSE <<>>)
         \o OrphanedPoolErrors(Tail(items), poolIds)

\* the body of the loop over transactions of validateBudgetIntegrity
TransactionOrphans(t, poolIds, channelIds) ==
    (IF "channelId" \in DOMAIN t /\ t.channelId \notin channelIds
     THEN <<OrphanedReference(t.channelId)>> ELSE <<>>)
    \o (IF t.type = "transfer"
        THEN (IF t.sourceChannelId \notin channelIds
              THEN <<OrphanedReference(t.sourceChannelId)>> ELSE <<>>)
             \o (IF t.destinationChannelId \notin channelIds
                 THEN <<OrphanedReference(t.destinationChannelId)>> ELSE <<>>)
        ELSE <<>>)
    \o (IF t.type \in {"income", "expense"} /\ Truthy(t.allocationBreakdown)
        THEN OrphanedPoolErrors(t.allocationBreakdown.items, poolIds)
        ELSE <<>>)
    \o (IF t.type = "transfer"
        THEN (IF Truthy(t.sourceAllocation)
              THEN OrphanedPoolErrors(t.sourceAllocation.items, poolIds) ELSE <<>>)
             \o (IF Truthy(t.destinationAllocation)
                 THEN OrphanedPoolErrors(t.destinationAllocation.items, poolIds)
                 ELSE <<>>)
        ELSE <<>>)

\* for (const transaction of transactions) { ... }
RECURSIVE AllTransactionOrphans(_, _, _)
AllTransactionOrphans(transactions, poolIds, channelIds) ==
    IF transactions = <<>> THEN <<>>
    ELSE TransactionOrphans(Head(transactions), poolIds, channelIds)
         \o AllTransactionOrphans(Tail(transactions), poolIds, channelIds)

\* for (const strategy of allocationStrategies.filter((s) => s.isActive)) { ... }
RECURSIVE StrategyOrphans(_, _)
StrategyOrphans(strategies, poolIds) ==
    IF strategies = <<>> THEN <<>>
    ELSE (IF Head(strategies).isActive
          THEN OrphanedPoolErrors(Head(strategies).allocations, poolIds)
          ELSE <<>>)
         \o StrategyOrphans(Tail(strategies), poolIds)

\* ValidationService.validateBudgetIntegrity
validateBudgetIntegrity(pools, channels, transactions, allocationStrategies) ==
    LET poolIds == ActiveIds(pools)
        channelIds == ActiveIds(channels)
    IN  Result(AllTransactionOrphans(transactions, poolIds, channelIds)
               \o StrategyOrphans(allocationStrategies, poolIds))

\* the errors of the single-record check; ref is the id that the details of
\* the error name
ChannelNotFound(ref) ==
    [code |-> "TRANSACTION_CHANNEL_NOT_FOUND", field |-> NoField, ref |-> ref]
PoolNotFound(ref) ==
    [code |-> "TRANSACTION_POOL_NOT_FOUND", field |-> NoField, ref |-> ref]

\* variant: the loop over the items stops at the first pool that is missing
RECURSIVE PoolNotFoundErrors_FirstOnly(_, _)
PoolNotFoundErrors_FirstOnly(items, existingPoolIds) ==
    IF items = <<>> THEN <<>>
    ELSE IF Head(items).poolId \notin existingPoolIds
    THEN <<PoolNotFound(Head(items).poolId)>>
    ELSE PoolNotFoundErrors_FirstOnly(Tail(items), existingPoolIds)

\* for (const item of items) if (!existingPoolIds.has(item.poolId)) errors.push(...)
RECURSIVE PoolNotFoundErrors(_, _)
PoolNotFoundErrors(items, existingPoolIds) ==
    IF items = <<>> THEN <<>>
    ELSE (IF Head(items).poolId \notin existingPoolIds
          THEN <<PoolNotFound(Head(items).poolId)>> ELSE <<>>)
         \o PoolNotFoundErrors(Tail(items), existingPoolIds)

\* ValidationService.validateTransactionIntegrity
validateTransactionIntegrity(transaction, existingPoolIds, existingChannelIds) ==
    Result(
        (IF "channelId" \in DOMAIN transaction
            /\ transaction.channelId \notin existingChannelIds
         THEN <<ChannelNotFound(transaction.channelId)>> ELSE <<>>)
        \o (IF transaction.type = "transfer"
            THEN (IF transaction.sourceChannelId \notin existingChannelIds
                  THEN <<ChannelNotFound(transaction.sourceChannelId)>> ELSE <<>>)
                 \o (IF transaction.destinationChannelId \notin existingChannelIds
                     THEN <<ChannelNotFound(transaction.destinationChannelId)>>
                     ELSE <<>>)
            ELSE <<>>)
        \o (IF transaction.type \in {"income", "expense"}
               /\ Truthy(transaction.allocationBreakdown)
            THEN PoolNotFoundErrors(transaction.allocationBreakdown.items,
                                    existingPoolIds)
            ELSE <<>>)
        \o (IF transaction.type = "transfer"
            THEN (IF Truthy(transaction.sourceAllocation)
                  THEN PoolNotFoundErrors(transaction.sourceAllocation.items,
                                          existingPoolIds)
                  ELSE <<>>)
                 \o (IF Truthy(transaction.destinationAllocation)
                     THEN PoolNotFoundErrors(transaction.destinationAllocation.items,
                                             existingPoolIds)
                     ELSE <<>>)
            ELSE <<>>))

(***************************************************************************)
(* The budget integrity checker: inputs and calls.                         *)
(***************************************************************************)
MaxTx == 1          \* longest transaction list of a budget

\* the entities of a budget: the first is active, the second is active,
\* inactive or missing
EntityLists(first, second) ==
    {<<[id |-> first, isActive |-> TRUE]>>}
    \cup {<<[id |-> first, isActive |-> TRUE], [id |-> second, isActive |-> a]>> :
            a \in BOOLEAN}
BudgetPools == EntityLists("pool1", "pool2")
BudgetChannels == EntityLists("channel1", "channel2")

\* the allocations of the transactions of a budget: absent, over one pool,
\* over both pools, or twice over the second pool
ReferencingBreakdown(ids) ==
    Breakdown([i \in DOMAIN ids |-> Item(ids[i], Dollars(100))], Dollars(100) * Len(ids))
BudgetAllocations ==
    {Undefined} \cup {ReferencingBreakdown(ids) :
                            ids \in {<<"pool1">>, <<"pool2">>, <<"pool1", "pool2">>,
                                     <<"pool2", "pool2">>}}
BudgetTransactions ==
    {Income("tx", c, Dollars(100), "notes", 1, b) : c \in ChannelIds, b \in BudgetAllocations}
    \cup {Expense("tx", c, Dollars(100), "notes", 1, b) : c \in ChannelIds, b \in BudgetAllocations}
    \cup {Transfer("tx", c, d, Dollars(100), "notes", "description", 1, b, e) :
            c \in ChannelIds, d \in ChannelIds,
            b \in BudgetAllocations, e \in BudgetAllocations}
BudgetStrategies ==
    {Strategy("strategy1", [i \in DOMAIN ids |-> PoolAllocation(ids[i], ONE \div Len(ids))], a) :
        ids \in {<<"pool1">>, <<"pool1", "pool2">>}, a \in BOOLEAN}
\* no strategy, one strategy, or an inactive strategy followed by an active one
BudgetStrategyLists ==
    {<<>>}
    \cup {<<s>> : s \in BudgetStrategies}
    \cup {<<s, t>> : s \in {x \in BudgetStrategies : ~x.isActive},
                     t \in {x \in BudgetStrategies : x.isActive}}
IntegrityArgs ==
    [pools : BudgetPools, channels : BudgetChannels,
     transactions : SeqsUpTo(BudgetTransactions, MaxTx),
     allocationStrategies : BudgetStrategyLists]

\* the arguments of the single-record check: a transaction and two Sets of ids
TransactionIntegrityArgs ==
    [transaction : BudgetTransactions,
     existingPoolIds : SUBSET PoolIds,
     existingChannelIds : SUBSET ChannelIds]

ValidateTransactionIntegrity ==
    /\ pc = "call"
    /\ op = "validateTransactionIntegrity"
    /\ res' = validateTransactionIntegrity(arg.transaction, arg.existingPoolIds,
                                           arg.existingChannelIds)
    /\ pc' = "done"
    /\ UNCHANGED <<op, arg, now>>

ValidateBudgetIntegrity ==
    /\ pc = "call"
    /\ op = "validateBudgetIntegrity"
    /\ res' = validateBudgetIntegrity(arg.pools, arg.channels, arg.transactions,
                                      arg.allocationStrategies)
    /\ pc' = "done"
    /\ UNCHANGED <<op, arg, now>>

InitIntegrity ==
    /\ InitCommon
    /\ \/ op = "validateBudgetIntegrity" /\ arg \in IntegrityArgs
       \/ op = "validateTransactionIntegrity" /\ arg \in TransactionIntegrityArgs
NextIntegrity == ValidateBudgetIntegrity \/ ValidateTransactionIntegrity
SpecIntegrity == InitIntegrity /\ [][NextIntegrity]_vars

(***************************************************************************)
(* Repeated calls.  One validator is called several times on the same      *)
(* argument while the clock runs; res keeps, for every call, the time at   *)
(* which it ran and what it returned.                                      *)
(***************************************************************************)
MaxCalls == 2

\* the validators whose body reads new Date(), directly or through
\* validateTransaction
ClockReaders ==
    {"validateTransaction", "validateIncomeTransaction",
     "validateExpenseTransaction", "validateTransferTransaction",
     "validateCreditPayment", "validateBalanceSnapshot"}

\* validationService[o](a), run when the clock shows clock
Invoke(o, a, clock) ==
    CASE o = "validateAllocationBreakdown" -> validateAllocationBreakdown(a)
      [] o = "validateAllocationStrategy" -> validateAllocationStrategy(a)
      [] o = "validatePoolAllocation" ->
            validatePoolAllocation(a.poolId, a.amount, a.availableBalance)
      [] o = "validateTransaction" -> validateTransaction(a, clock)
      [] o = "validateIncomeTransaction" -> validateIncomeTransaction(a, clock)
      [] o = "validateExpenseTransaction" -> validateExpenseTransaction(a, clock)
      [] o = "validateTransferTransaction" -> validateTransferTransaction(a, clock)
      [] o = "validateCreditPayment" -> validateCreditPayment(a, clock)
      [] o = "calculateMaxCreditPayment" ->
            calculateMaxCreditPayment(a.sourceAllocation, a.availableBalances,
                                      a.creditDebt)
      [] o = "validateBalanceConsistency" -> validateBalanceConsistency(a)
      [] o = "validatePoolChannelBalance" ->
            validatePoolChannelBalance(a.poolId, a.channelId, a.expectedAmount,
                                       a.actualAmount)
      [] o = "validateCurrentBalance" -> validateCurrentBalance(a)
      [] o = "validateBalanceSnapshot" -> validateBalanceSnapshot(a, clock)
      [] o = "validateBudgetIntegrity" ->
            validateBudgetIntegrity(a.pools, a.channels, a.transactions,
                                    a.allocationStrategies)
      [] o = "validateTransactionIntegrity" ->
            validateTransactionIntegrity(a.transaction, a.existingPoolIds,
                                         a.existingChannelIds)
      [] o = "validateImportData" -> validateImportData(a)

\* the arguments of the repeated calls: those of the single calls with at
\* most one item, balance, row or transaction in their lists
ShortAllocation(b) == ~IsObject(b) \/ Len(b.items) <= 1
RepeatedCalls ==
    ({"validateAllocationBreakdown"} \X {b \in BreakdownArgs : ShortAllocation(b)})
    \cup ({"validateAllocationStrategy"}
          \X {x \in StrategyArgs : ~IsObject(x) \/ Len(x.allocations) <= 1})
    \cup ({"validatePoolAllocation"} \X PoolAllocationArgs)
    \cup ({"validateTransaction"} \X BaseTransactionArgs)
    \cup ({"validateIncomeTransaction"}
          \X {t \in IncomeArgs : ShortAllocation(t.allocationBreakdown)})
    \cup ({"validateExpenseTransaction"}
          \X {t \in ExpenseArgs : ShortAllocation(t.allocationBreakdown)})
    \cup ({"validateTransferTransaction", "validateCreditPayment"}
          \X {Transfer("transfer1", "channel1", c, Dollars(50), "Rent", "Payment",
                       d, b, e) :
                c \in ChannelIds, d \in TransactionDates,
                b \in {x \in TransactionAllocations : ShortAllocation(x)},
                e \in {Undefined,
                       Breakdown(<<Item("pool1", Dollars(50))>>, Dollars(50))}})
    \cup ({"calculateMaxCreditPayment"}
          \X {a \in CreditArgs : Len(a.sourceAllocation.items) <= 1})
    \cup ({"validateBalanceConsistency"} \X {b \in BalanceLists : Len(b) <= 1})
    \cup ({"validatePoolChannelBalance"} \X PoolChannelBalanceArgs)
    \cup ({"validateCurrentBalance"}
          \X {c \in CurrentBalanceArgs : ~IsObject(c) \/ Len(c.balances) <= 1})
    \cup ({"validateBalanceSnapshot"}
          \X {x \in BalanceSnapshotArgs : ~IsObject(x) \/ Len(x.balances) <= 1})
    \cup ({"validateBudgetIntegrity"}
          \X [pools : BudgetPools, channels : BudgetChannels,
              transactions : {<<>>}, allocationStrategies : BudgetStrategyLists])
    \cup ({"validateTransactionIntegrity"}
          \X {a \in TransactionIntegrityArgs : a.transaction.type = "income"})
    \cup ({"validateImportData"} \X {r \in SeqsUpTo(ImportRows, 1) : TRUE})

\* one more call of op on arg
CallAgain ==
    /\ pc = "call"
    /\ res' = Append(res, [at |-> now, result |-> Invoke(op, arg, now)])
    /\ pc' = IF Len(res) + 1 = MaxCalls THEN "done" ELSE "call"
    /\ UNCHANGED <<op, arg, now>>

InitRepeated ==
    /\ \E c \in RepeatedCalls : op = c[1] /\ arg = c[2]
    /\ res = <<>>
    /\ now = 1
    /\ pc = "call"
NextRepeated == Tick \/ CallAgain
SpecRepeated == InitRepeated /\ [][NextRepeated]_vars

(***************************************************************************)
(* Interleaved calls.  validateTransferTransaction and                     *)
(* validateCreditPayment are async methods: each await hands control to    *)
(* the other tasks of the caller before the method goes on, and the method *)
(* reads the fields of its argument again after it.  pc is the await the   *)
(* call is suspended at; res holds the argument and the time at which the  *)
(* call started, the errors pushed so far, and the errors of the nested    *)
(* call that is being awaited.                                             *)
(***************************************************************************)
\* return { isValid: errors.length === 0, errors } of
\* validateTransferTransaction; a credit payment awaits it
TransferReturn(errors) ==
    /\ res' = [res EXCEPT !.errors = errors, !.pending = <<>>]
    /\ pc' = IF op = "validateCreditPayment" THEN "awaitTransfer" ELSE "done"

\* if (transfer.destinationAllocation) { ...; await
\* this.validateAllocationBreakdown(transfer.destinationAllocation) }
DestinationBlock(errors) ==
    IF Truthy(arg.destinationAllocation)
    THEN /\ res' = [res EXCEPT
                      !.errors = errors
                          \o AllocationMismatchErrors(arg.destinationAllocation,
                                                      arg.amount,
                                                      "destinationAllocation"),
                      !.pending =
                          validateAllocationBreakdown(arg.destinationAllocation).errors]
         /\ pc' = "awaitDestination"
    ELSE TransferReturn(errors)

\* the call starts: schema check, then the body of validateTransaction runs
\* up to its return and the caller awaits its promise
TransferEnter ==
    /\ pc = "call"
    /\ res' = [started |-> arg, clock |-> now,
               errors |-> SchemaErrors(TransferTransactionSchema(arg)),
               pending |-> validateTransaction(arg, now).errors]
    /\ pc' = "awaitBasic"
    /\ UNCHANGED <<op, arg, now>>

\* after await this.validateTransaction(transfer): the self-transfer check and
\* the source allocation block, up to its await
TransferAfterBasic ==
    /\ pc = "awaitBasic"
    /\ LET errors == res.errors \o res.pending \o SelfTransferErrors(arg)
       IN  IF Truthy(arg.sourceAllocation)
           THEN /\ res' = [res EXCEPT
                             !.errors = errors
                                 \o AllocationMismatchErrors(arg.sourceAllocation,
                                                             arg.amount,
                                                             "sourceAllocation"),
                             !.pending =
                                 validateAllocationBreakdown(arg.sourceAllocation).errors]
                /\ pc' = "awaitSource"
           ELSE DestinationBlock(errors)
    /\ UNCHANGED <<op, arg, now>>

\* after await this.validateAllocationBreakdown(transfer.sourceAllocation)
TransferAfterSource ==
    /\ pc = "awaitSource"
    /\ DestinationBlock(res.errors \o res.pending)
    /\ UNCHANGED <<op, arg, now>>

\* after await this.validateAllocationBreakdown(transfer.destinationAllocation)
TransferAfterDestination ==
    /\ pc = "awaitDestination"
    /\ TransferReturn(res.errors \o res.pending)
    /\ UNCHANGED <<op, arg, now>>

\* validateCreditPayment after await this.validateTransferTransaction(transfer)
CreditAfterTransfer ==
    /\ pc = "awaitTransfer"
    /\ res' = [res EXCEPT !.errors = res.errors \o CreditSourceErrors(arg)]
    /\ pc' = "done"
    /\ UNCHANGED <<op, arg, now>>

\* the allocations a transfer of the interleaved calls may carry
InterleavedAllocations ==
    {Undefined}
    \cup {Breakdown(items, Dollars(50)) :
            items \in SeqsUpTo([poolId : PoolIds, amount : {Dollars(50)}], 1)}
InterleavedArgs ==
    {Transfer("transfer1", "channel1", c, a, "Rent", "Payment", 1, b, e) :
        c \in ChannelIds, a \in {Dollars(50), Dollars(100)},
        b \in InterleavedAllocations, e \in InterleavedAllocations}

\* another task of the caller runs while the call is suspended and assigns
\* one field of the transfer; one such assignment per call is explored
OtherTask ==
    /\ pc \in {"awaitBasic", "awaitSource", "awaitDestination", "awaitTransfer"}
    /\ arg = res.started
    /\ \E t \in InterleavedArgs :
          /\ \E f \in {"amount", "destinationChannelId", "sourceAllocation",
                       "destinationAllocation"} :
                t = [arg EXCEPT ![f] = t[f]] /\ t[f] # arg[f]
          /\ arg' = t
    /\ UNCHANGED <<op, res, now, pc>>

InitInterleaved ==
    /\ op \in {"validateTransferTransaction", "validateCreditPayment"}
    /\ arg \in InterleavedArgs
    /\ InitCommon
NextInterleaved ==
    \/ Tick
    \/ TransferEnter
    \/ TransferAfterBasic
    \/ TransferAfterSource
    \/ TransferAfterDestination
    \/ CreditAfterTransfer
    \/ OtherTask
SpecInterleaved == InitInterleaved /\ [][NextInterleaved]_vars

(***************************************************************************)
(* Model helpers (models/category.ts, models/transaction.ts).              *)
(* normalizeAllocationBreakdown divides, so its amounts are exact          *)
(* fractions [n, d] of a half cent, d > 0, in lowest terms.                *)
(***************************************************************************)
RECURSIVE GCD(_, _)
GCD(a, b) == IF b = 0 THEN a ELSE GCD(b, a % b)
\* the number n / d, d # 0
Frac(n, d) ==
    LET g == GCD(Abs(n), Abs(d))
        s == IF d < 0 THEN -1 ELSE 1
    IN  [n |-> s * (n \div g), d |-> s * (d \div g)]
\* items.reduce((sum, item) => sum + item.amount, 0)
RECURSIVE FracSum(_)
FracSum(items) ==
    IF items = <<>> THEN Frac(0, 1)
    ELSE LET sum == FracSum(SubSeq(items, 1, Len(items) - 1))
             amount == items[Len(items)].amount
         IN  Frac(sum.n * amount.d + amount.n * sum.d, sum.d * amount.d)

\* normalizeAllocationBreakdown
normalizeAllocationBreakdown(allocation) ==
    LET calculatedTotal == FracSum(allocation.items)
    IN  IF calculatedTotal.n = 0 THEN Threw
        ELSE LET adjustmentFactor ==
                     Frac(allocation.totalAmount.n * calculatedTotal.d,
                          allocation.totalAmount.d * calculatedTotal.n)
                 normalizedItems ==
                     [i \in DOMAIN allocation.items |->
                         [allocation.items[i] EXCEPT
                             !.amount = Frac(@.n * adjustmentFactor.n,
                                             @.d * adjustmentFactor.d)]]
             IN  Breakdown(normalizedItems, allocation.totalAmount)

\* destinationDebts.find((debt) => debt.poolId === poolId): the index of the
\* first such debt, 0 when find returns undefined
FindDebt(destinationDebts, poolId) ==
    IF \E i \in DOMAIN destinationDebts : destinationDebts[i].poolId = poolId
    THEN CHOOSE i \in DOMAIN destinationDebts :
            /\ destinationDebts[i].poolId = poolId
            /\ \A j \in 1..(i - 1) : destinationDebts[j].poolId # poolId
    ELSE 0

\* the forEach of validateCreditCardPayment, maxPayable being the running sum
RECURSIVE MaxPayableLoop(_, _, _)
MaxPayableLoop(sourceBalances, destinationDebts, maxPayable) ==
    IF sourceBalances = <<>> THEN maxPayable
    ELSE LET source == Head(sourceBalances)
             matchingDebt == FindDebt(destinationDebts, source.poolId)
         IN  MaxPayableLoop(Tail(sourceBalances), destinationDebts,
                 IF matchingDebt # 0
                 THEN maxPayable + Min(source.availableAmount,
                                       destinationDebts[matchingDebt].debtAmount)
                 ELSE maxPayable)

\* validateCreditCardPayment (models/transaction.ts)
validateCreditCardPayment(paymentAmount, sourceBalances, destinationDebts) ==
    LET maxPayable == MaxPayableLoop(sourceBalances, destinationDebts, 0)
        isValid == paymentAmount <= maxPayable
    IN  [isValid |-> isValid, maxPayable |-> maxPayable,
         errors |-> IF ~isValid THEN <<"Cannot pay">> ELSE <<>>]

\* calculateMaximumPayableAmount (models/category.ts): the breakdown it
\* pushes, and maxAmount, the sum of what it pushed
RECURSIVE PayableBreakdown(_, _)
PayableBreakdown(sourceBalances, destinationDebts) ==
    IF sourceBalances = <<>> THEN <<>>
    ELSE LET source == Head(sourceBalances)
             matchingDebt == FindDebt(destinationDebts, source.poolId)
         IN  (IF matchingDebt # 0
              THEN <<[poolId |-> source.poolId,
                      payableAmount |->
                          Min(source.availableAmount,
                              destinationDebts[matchingDebt].debtAmount)]>>
              ELSE <<>>)
             \o PayableBreakdown(Tail(sourceBalances), destinationDebts)
RECURSIVE SumPayable(_)
SumPayable(breakdown) ==
    IF breakdown = <<>> THEN 0
    ELSE Head(breakdown).payableAmount + SumPayable(Tail(breakdown))
calculateMaximumPayableAmount(sourceBalances, destinationDebts) ==
    LET breakdown == PayableBreakdown(sourceBalances, destinationDebts)
    IN  [maxAmount |-> SumPayable(breakdown), breakdown |-> breakdown]

\* the forEach of createCreditCardPaymentTransfer: the destination items it
\* pushes; the source items hold the same amounts negated
RECURSIVE DistributePayment(_, _, _)
DistributePayment(sourceBalances, destinationDebts, remainingAmount) ==
    IF sourceBalances = <<>> \/ remainingAmount <= 0 THEN <<>>
    ELSE LET source == Head(sourceBalances)
             matchingDebt == FindDebt(destinationDebts, source.poolId)
             payableAmount ==
                 IF matchingDebt # 0
                 THEN Min(Min(source.availableAmount,
                              destinationDebts[matchingDebt].debtAmount),
                          remainingAmount)
                 ELSE 0
         IN  IF payableAmount > 0
             THEN <<Item(source.poolId, payableAmount)>>
                  \o DistributePayment(Tail(sourceBalances), destinationDebts,
                                       remainingAmount - payableAmount)
             ELSE DistributePayment(Tail(sourceBalances), destinationDebts,
                                    remainingAmount)

\* createCreditCardPaymentTransfer: a CreateTransferTransaction, which has no
\* id, type or notes (read as the empty id and type and as NoNotes)
createCreditCardPaymentTransfer(paymentAmount, sourceChannelId, destinationChannelId, sourceBalances, destinationDebts, date) ==
    LET destinationItems ==
            DistributePayment(sourceBalances, destinationDebts, paymentAmount)
        sourceItems ==
            [i \in DOMAIN destinationItems |->
                Item(destinationItems[i].poolId, -destinationItems[i].amount)]
    IN  [tag |-> "object", id |-> "", type |-> "", notes |-> NoNotes,
         date |-> date, amount |-> paymentAmount,
         description |-> "Credit card payment",
         sourceChannelId |-> sourceChannelId,
         sourceAllocation |-> Breakdown(sourceItems, -paymentAmount),
         destinationChannelId |-> destinationChannelId,
         destinationAllocation |-> Breakdown(destinationItems, paymentAmount)]

\* new Map(list.map((e) => [e.poolId, e[field]])): a later entry of a pool
\* replaces an earlier one
MapOf(list, field) ==
    [p \in {list[i].poolId : i \in DOMAIN list} |->
        list[CHOOSE i \in DOMAIN list :
                /\ list[i].poolId = p
                /\ \A j \in (i + 1)..Len(list) : list[j].poolId # p][field]]

(***************************************************************************)
(* The model helpers: inputs and calls.                                    *)
(***************************************************************************)
NormalizeArgs ==
    {Breakdown(items, Frac(total, 1)) :
        items \in SeqsUpTo([poolId : PoolIds,
                            amount : {Frac(Dollars(-50), 1), Frac(Dollars(30), 1),
                                      Frac(Dollars(50), 1)}], MaxItems),
        total \in {0, Dollars(80), Dollars(100)}}
PaymentArgs ==
    [paymentAmount : {Dollars(50), Dollars(100), Dollars(130)},
     sourceBalances :
        SeqsUpTo([poolId : PoolIds,
                  availableAmount : {Dollars(-50), Dollars(80)}], MaxItems),
     destinationDebts :
        SeqsUpTo([poolId : PoolIds,
                  debtAmount : {Dollars(-50), Dollars(50), Dollars(150)}], MaxItems)]

NormalizeAllocationBreakdown ==
    /\ pc = "call"
    /\ op = "normalizeAllocationBreakdown"
    /\ res' = normalizeAllocationBreakdown(arg)
    /\ pc' = "done"
    /\ UNCHANGED <<op, arg, now>>

ValidateCreditCardPayment ==
    /\ pc = "call"
    /\ op = "validateCreditCardPayment"
    /\ res' = validateCreditCardPayment(arg.paymentAmount, arg.sourceBalances,
                                        arg.destinationDebts)
    /\ pc' = "done"
    /\ UNCHANGED <<op, arg, now>>

\* called with its default date, new Date()
CreateCreditCardPaymentTransfer ==
    /\ pc = "call"
    /\ op = "createCreditCardPaymentTransfer"
    /\ res' = createCreditCardPaymentTransfer(arg.paymentAmount, "channel1",
                                              "channel2", arg.sourceBalances,
                                              arg.destinationDebts, now)
    /\ pc' = "done"
    /\ UNCHANGED <<op, arg, now>>

InitHelpers ==
    /\ InitCommon
    /\ \/ op = "normalizeAllocationBreakdown" /\ arg \in NormalizeArgs
       \/ /\ op \in {"validateCreditCardPayment", "createCreditCardPaymentTransfer"}
          /\ arg \in PaymentArgs
NextHelpers ==
    \/ NormalizeAllocationBreakdown
    \/ ValidateCreditCardPayment
    \/ CreateCreditCardPaymentTransfer
SpecHelpers == InitHelpers /\ [][NextHelpers]_vars

(***************************************************************************)
(* Balance updates (models/balance.ts).  PoolBalance objects live in a     *)
(* heap, a sequence indexed by reference; a PoolBalance[] is a sequence of *)
(* references, so that a copy of a list shares its objects with the list.  *)
(* arg is the memory of the caller, the heap and the list it holds; res    *)
(* records the last call.                                                  *)
(***************************************************************************)
\* destinationChannelId is undefined
NoChannel == ""
\* the PoolBalance objects a list refers to
Values(heap, list) == [i \in DOMAIN list |-> heap[list[i]]]

\* calculateNetWorth
RECURSIVE calculateNetWorth(_)
calculateNetWorth(balances) ==
    IF balances = <<>> THEN 0
    ELSE calculateNetWorth(SubSeq(balances, 1, Len(balances) - 1))
         + balances[Len(balances)].amount

\* updatedBalances.findIndex((b) => b.poolId === poolId && b.channelId ===
\* channelId), counted from 1; 0 when findIndex returns -1
FindBalance(heap, updatedBalances, poolId, channelId) ==
    LET hit(i) == /\ heap[updatedBalances[i]].poolId = poolId
                  /\ heap[updatedBalances[i]].channelId = channelId
    IN  IF \E i \in DOMAIN updatedBalances : hit(i)
        THEN CHOOSE i \in DOMAIN updatedBalances :
                hit(i) /\ \A j \in 1..(i - 1) : ~hit(j)
        ELSE 0

\* one poolAllocations.forEach of updateBalanceAfterTransaction: for the
\* source channel the amount is added as it is, for the destination channel
\* its absolute value
RECURSIVE ApplyAllocations(_, _, _, _, _)
ApplyAllocations(heap, updatedBalances, poolAllocations, channelId, absolute) ==
    IF poolAllocations = <<>> THEN [heap |-> heap, updatedBalances |-> updatedBalances]
    ELSE LET allocation == Head(poolAllocations)
             amount == IF absolute THEN Abs(allocation.amount) ELSE allocation.amount
             existingIndex == FindBalance(heap, updatedBalances, allocation.poolId,
                                          channelId)
         IN  IF existingIndex > 0
             THEN ApplyAllocations(
                      [heap EXCEPT ![updatedBalances[existingIndex]].amount = @ + amount],
                      updatedBalances, Tail(poolAllocations), channelId, absolute)
             ELSE ApplyAllocations(
                      Append(heap, [poolId |-> allocation.poolId,
                                    channelId |-> channelId, amount |-> amount]),
                      Append(updatedBalances, Len(heap) + 1),
                      Tail(poolAllocations), channelId, absolute)

\* updateBalanceAfterTransaction: the heap after the call and the list it
\* returns
updateBalanceAfterTransaction(heap, currentBalances, poolAllocations, channelId, destinationChannelId) ==
    LET source == ApplyAllocations(heap, currentBalances, poolAllocations,
                                   channelId, FALSE)
    IN  IF destinationChannelId # NoChannel
        THEN ApplyAllocations(source.heap, source.updatedBalances, poolAllocations,
                              destinationChannelId, TRUE)
        ELSE source

\* the balance lists of the caller: one balance of 100 dollars per pool and
\* channel, no pair twice
LedgerBalances ==
    {b \in SeqsUpTo([poolId : PoolIds, channelId : ChannelIds,
                     amount : {Dollars(100)}], MaxBalances) :
        \A i, j \in DOMAIN b : i # j => b[i] # b[j]}
\* the allocations of a transaction: 50 dollars in or out of a pool, no pool
\* twice
LedgerAllocations ==
    {items \in SeqsUpTo([poolId : PoolIds, amount : {Dollars(-50), Dollars(50)}],
                        MaxItems) :
        items # <<>> /\ AllDistinct(PoolIdsOf(items))}

\* the caller applies a transaction on channel1 to the list it holds and goes
\* on with the list that is returned
UpdateBalanceAfterTransaction ==
    /\ pc = "call"
    /\ \E poolAllocations \in LedgerAllocations,
          destinationChannelId \in {NoChannel, "channel2"} :
          LET out == updateBalanceAfterTransaction(arg.heap, arg.currentBalances,
                         poolAllocations, "channel1", destinationChannelId)
          IN  /\ arg' = [heap |-> out.heap, currentBalances |-> out.updatedBalances]
              /\ res' = [calls |-> res.calls + 1,
                         transfersOnly |->
                             res.transfersOnly /\ destinationChannelId # NoChannel,
                         initial |-> res.initial,
                         currentBalances |-> arg.currentBalances,
                         before |-> Values(arg.heap, arg.currentBalances),
                         poolAllocations |-> poolAllocations,
                         destinationChannelId |-> destinationChannelId,
                         returned |-> Values(out.heap, out.updatedBalances)]
    /\ pc' = IF res.calls + 1 = MaxCalls THEN "done" ELSE "call"
    /\ UNCHANGED <<op, now>>

InitLedger ==
    /\ op = "updateBalanceAfterTransaction"
    /\ \E b \in LedgerBalances :
          /\ arg = [heap |-> b, currentBalances |-> [i \in DOMAIN b |-> i]]
          /\ res = [calls |-> 0, transfersOnly |-> TRUE,
                    initial |-> calculateNetWorth(b),
                    currentBalances |-> <<>>, before |-> <<>>,
                    poolAllocations |-> <<>>, destinationChannelId |-> NoChannel,
                    returned |-> <<>>]
    /\ now = 1
    /\ pc = "call"
NextLedger == UpdateBalanceAfterTransaction
SpecLedger == InitLedger /\ [][NextLedger]_vars

(***************************************************************************)
(* Properties of the allocation validator (SpecAllocation).                *)
(***************************************************************************)
\* the items of b with a negative amount
NegativeItems(b) == {i \in DOMAIN b.items : b.items[i].amount < 0}
\* |sum of the item amounts - totalAmount|
SumGap(b) == Abs(SumAmount(b.items) - b.totalAmount)
\* |sum of the proportions - 1.0|
ProportionGap(s) == Abs(SumProportion(s.allocations) - ONE)
\* every proportion of s lies in [0, 1]
ProportionsInRange(s) ==
    \A i \in DOMAIN s.allocations :
        s.allocations[i].proportion >= 0 /\ s.allocations[i].proportion <= ONE

C2_ProportionInvariant ==
    (Done("validateAllocationStrategy") /\ IsObject(arg) /\ arg.id # "")
    => (res.isValid <=> (/\ Len(arg.allocations) >= 1
                         /\ AllDistinct(PoolIdsOf(arg.allocations))
                         /\ ProportionsInRange(arg)
                         /\ ProportionGap(arg) <= 2))

\* two proportions whose sum is exactly 0.0001 above 1.0, accepted
C2_Witness ==
    /\ Done("validateAllocationStrategy")
    /\ IsObject(arg)
    /\ arg.id # ""
    /\ Len(arg.allocations) = 2
    /\ ProportionGap(arg) = 2
    /\ res.isValid

C9_BreakdownAccumulates ==
    (Done("validateAllocationBreakdown") /\ AllocationBreakdownSchema(arg))
    => /\ \A p \in PoolIds :
            CountErr(res.errors, "ALLOCATION_NEGATIVE_AMOUNT", "items." \o p \o ".amount")
            = Cardinality({i \in NegativeItems(arg) : arg.items[i].poolId = p})
       /\ CountErr(res.errors, "ALLOCATION_NEGATIVE_AMOUNT", "totalAmount")
            = (IF arg.totalAmount <= 0 THEN 1 ELSE 0)
       /\ Len(res.errors)
            = Cardinality(NegativeItems(arg)) + (IF arg.totalAmount <= 0 THEN 1 ELSE 0)
       /\ res.isValid = (Len(res.errors) = 0)

\* items {pool1: -100, pool2: 50} with totalAmount -50: both errors
C9_Witness ==
    /\ Done("validateAllocationBreakdown")
    /\ arg = Breakdown(<<Item("pool1", Dollars(-100)), Item("pool2", Dollars(50))>>,
                       Dollars(-50))
    /\ res.errors = <<Err("ALLOCATION_NEGATIVE_AMOUNT", "items.pool1.amount"),
                      Err("ALLOCATION_NEGATIVE_AMOUNT", "totalAmount")>>

\* C10 as stated, for strategies whose only defect is the sum: when the
\* proportions sum to a value more than 0.0001 away from 1.0 the result is
\* invalid and carries ALLOCATION_SUM_INVALID on field allocations.
C10_SumInvalidReported ==
    (/\ Done("validateAllocationStrategy")
     /\ IsObject(arg)
     /\ arg.id # ""
     /\ Len(arg.allocations) >= 1
     /\ AllDistinct(PoolIdsOf(arg.allocations))
     /\ ProportionsInRange(arg)
     /\ ProportionGap(arg) > 2)
    => /\ ~res.isValid
       /\ HasErr(res.errors, "ALLOCATION_SUM_INVALID", "allocations")

(***************************************************************************)
(* Properties of the credit payment solver (SpecCredit).                   *)
(***************************************************************************)
\* what one pool may contribute: nothing unless both its available balance
\* and its debt are positive, and then the smaller of the two
CappedContribution(available, debt) ==
    IF available <= 0 \/ debt <= 0 THEN 0
    ELSE IF available <= debt THEN available ELSE debt

\* the sum of f over the indices in S
RECURSIVE SumOfIndices(_, _)
SumOfIndices(f, S) ==
    IF S = {} THEN 0
    ELSE LET i == CHOOSE j \in S : TRUE
         IN  f[i] + SumOfIndices(f, S \ {i})

\* C3: calculateMaxCreditPayment returns the sum over the items of the source
\* allocation of max(0, min(available, debt)), a pool absent from a map
\* counting as 0 there.
C3_PerPoolCappedSum ==
    Done("calculateMaxCreditPayment")
    => LET items == arg.sourceAllocation.items
           share == [i \in DOMAIN items |->
                        CappedContribution(
                            IF items[i].poolId \in DOMAIN arg.availableBalances
                            THEN arg.availableBalances[items[i].poolId] ELSE 0,
                            IF items[i].poolId \in DOMAIN arg.creditDebt
                            THEN arg.creditDebt[items[i].poolId] ELSE 0)]
       IN  res = SumOfIndices(share, DOMAIN items)

\* source [pool1: 200, pool2: 100], available {pool1: 300, pool2: 50}, debt
\* {pool1: 150, pool2: 80}: 150 + 50 = 200, not min(350, 230)
C3_Witness ==
    /\ Done("calculateMaxCreditPayment")
    /\ arg.sourceAllocation.items
         = <<Item("pool1", Dollars(200)), Item("pool2", Dollars(100))>>
    /\ arg.availableBalances = [p \in PoolIds |-> IF p = "pool1" THEN Dollars(300) ELSE Dollars(50)]
    /\ arg.creditDebt = [p \in PoolIds |-> IF p = "pool1" THEN Dollars(150) ELSE Dollars(80)]
    /\ res = Dollars(200)

(***************************************************************************)
(* Properties of the budget integrity checker (SpecIntegrity).             *)
(***************************************************************************)
\* the ids of the entities of a list that are active
IdsOfActive(list) ==
    {id \in PoolIds \cup ChannelIds :
        \E i \in DOMAIN list : list[i].id = id /\ list[i].isActive = TRUE}

\* the channel references of the transactions: <<transaction index, field>>
ChannelReferences(transactions) ==
    {<<k, "channelId">> : k \in {j \in DOMAIN transactions :
                                    transactions[j].type \in {"income", "expense"}}}
    \cup {<<k, f>> : k \in {j \in DOMAIN transactions : transactions[j].type = "transfer"},
                     f \in {"sourceChannelId", "destinationChannelId"}}

\* the allocation fields of a transaction that are present
AllocationFields(t) ==
    {f \in (IF t.type = "transfer" THEN {"sourceAllocation", "destinationAllocation"}
            ELSE {"allocationBreakdown"}) : IsObject(t[f])}

\* the pool references of the transactions: <<transaction index, field, item index>>
PoolReferences(transactions) ==
    UNION {UNION {{<<k, f, i>> : i \in DOMAIN transactions[k][f].items} :
                    f \in AllocationFields(transactions[k])} :
           k \in DOMAIN transactions}

\* the pool references of the active strategies: <<strategy index, allocation index>>
StrategyReferences(strategies) ==
    UNION {{<<k, i>> : i \in DOMAIN strategies[k].allocations} :
           k \in {j \in DOMAIN strategies : strategies[j].isActive}}

\* the references of the budget of arg that do not name an active entity
FailingChannelReferences ==
    {r \in ChannelReferences(arg.transactions) :
        arg.transactions[r[1]][r[2]] \notin IdsOfActive(arg.channels)}
FailingPoolReferences ==
    {r \in PoolReferences(arg.transactions) :
        arg.transactions[r[1]][r[2]].items[r[3]].poolId \notin IdsOfActive(arg.pools)}
FailingStrategyReferences ==
    {r \in StrategyReferences(arg.allocationStrategies) :
        arg.allocationStrategies[r[1]].allocations[r[2]].poolId \notin IdsOfActive(arg.pools)}

\* C4: validateBudgetIntegrity is valid iff every channel reference and every
\* pool reference of a transaction, and every pool reference of an active
\* strategy, names an active entity; it emits one
\* DATA_INTEGRITY_ORPHANED_REFERENCE per failing reference and no other code.
C4_BudgetIntegrity ==
    Done("validateBudgetIntegrity")
    => /\ res.isValid <=> (/\ FailingChannelReferences = {}
                           /\ FailingPoolReferences = {}
                           /\ FailingStrategyReferences = {})
       /\ Len(res.errors) = Cardinality(FailingChannelReferences)
                            + Cardinality(FailingPoolReferences)
                            + Cardinality(FailingStrategyReferences)
       /\ \A i \in DOMAIN res.errors :
            res.errors[i].code = "DATA_INTEGRITY_ORPHANED_REFERENCE"

\* a transfer into the inactive channel2 that takes twice from the inactive
\* pool2, and an inactive strategy over both pools that is not reported
C4_Witness ==
    /\ Done("validateBudgetIntegrity")
    /\ arg.pools = <<Pool("pool1", TRUE), Pool("pool2", FALSE)>>
    /\ arg.channels = <<Channel("channel1", TRUE), Channel("channel2", FALSE)>>
    /\ Len(arg.transactions) = 1
    /\ arg.transactions[1].type = "transfer"
    /\ arg.transactions[1].sourceChannelId = "channel1"
    /\ arg.transactions[1].destinationChannelId = "channel2"
    /\ arg.transactions[1].sourceAllocation = ReferencingBreakdown(<<"pool2", "pool2">>)
    /\ arg.transactions[1].destinationAllocation = ReferencingBreakdown(<<"pool1">>)
    /\ Len(arg.allocationStrategies) = 2
    /\ arg.allocationStrategies[1].allocations
         = <<PoolAllocation("pool1", ONE \div 2), PoolAllocation("pool2", ONE \div 2)>>
    /\ arg.allocationStrategies[2].allocations = <<PoolAllocation("pool1", ONE)>>
    /\ ~res.isValid
    /\ Len(res.errors) = 3


(***************************************************************************)
(* Claims about the transaction validator (SpecTransaction).               *)
(***************************************************************************)
\* the set of pool ids an allocation names; an absent allocation names none
PoolsNamed(allocation) ==
    IF IsObject(allocation)
    THEN {allocation.items[i].poolId : i \in DOMAIN allocation.items}
    ELSE {}

\* a breakdown accepted on its own: at least one item, no pool twice, no
\* negative item, a positive total within the tolerance of the item sum
SoundAllocation(allocation) ==
    /\ IsObject(allocation)
    /\ Len(allocation.items) >= 1
    /\ \A i, j \in DOMAIN allocation.items :
          allocation.items[i].poolId = allocation.items[j].poolId => i = j
    /\ \A i \in DOMAIN allocation.items : allocation.items[i].amount >= 0
    /\ allocation.totalAmount > 0
    /\ Abs(SumAmount(allocation.items) - allocation.totalAmount) < 2

\* a transfer with nothing wrong besides, possibly, being a self-transfer
WellFormedTransfer(t, clock) ==
    /\ t.notes \notin {NoNotes, "", " "}
    /\ t.description # ""
    /\ t.amount > 0
    /\ t.date # NoDate /\ t.date <= clock
    /\ SoundAllocation(t.sourceAllocation)
    /\ SoundAllocation(t.destinationAllocation)
    /\ Abs(t.sourceAllocation.totalAmount - t.amount) <= 2
    /\ Abs(t.destinationAllocation.totalAmount - t.amount) <= 2

\* C5: validateTransferTransaction reports DATA_INTEGRITY_INVALID_STATE if and
\* only if the source and destination channel are the same and the two
\* allocations name the same set of pools, whatever the amounts, the
\* multiplicity and the order of the items; a transfer within one channel
\* whose pool sets differ and that is otherwise well-formed is valid.
C5_SelfTransfer ==
    Done("validateTransferTransaction") =>
        /\ HasCode(res.errors, "DATA_INTEGRITY_INVALID_STATE")
            <=> /\ arg.sourceChannelId = arg.destinationChannelId
                /\ PoolsNamed(arg.sourceAllocation)
                   = PoolsNamed(arg.destinationAllocation)
        /\ ( /\ arg.sourceChannelId = arg.destinationChannelId
             /\ PoolsNamed(arg.sourceAllocation)
                # PoolsNamed(arg.destinationAllocation)
             /\ WellFormedTransfer(arg, now) )
            => res.isValid

\* a transfer within one channel is reported although the items of its two
\* allocations come in opposite orders
C5_Witness ==
    /\ Done("validateTransferTransaction")
    /\ arg.sourceChannelId = arg.destinationChannelId
    /\ IsObject(arg.sourceAllocation)
    /\ IsObject(arg.destinationAllocation)
    /\ PoolIdsOf(arg.sourceAllocation.items) = <<"pool1", "pool2">>
    /\ PoolIdsOf(arg.destinationAllocation.items) = <<"pool2", "pool1">>
    /\ HasErr(res.errors, "DATA_INTEGRITY_INVALID_STATE", "channels")

\* the allocation is there and its total is more than 0.01 away from amount
OffByMoreThanTolerance(allocation, amount) ==
    /\ IsObject(allocation)
    /\ Abs(allocation.totalAmount - amount) > 2

\* the fields on which an error list reports TRANSACTION_ALLOCATION_MISMATCH
MismatchFields(errors) ==
    {errors[i].field :
        i \in {j \in DOMAIN errors :
                 errors[j].code = "TRANSACTION_ALLOCATION_MISMATCH"}}

\* C6: validateIncomeTransaction and validateExpenseTransaction report
\* TRANSACTION_ALLOCATION_MISMATCH on field allocationBreakdown if and only if
\* the breakdown total is more than 0.01 away from the amount;
\* validateTransferTransaction reports it on sourceAllocation and,
\* independently, on destinationAllocation under the same condition.
C6_Reconciliation ==
    /\ (Done("validateIncomeTransaction") \/ Done("validateExpenseTransaction"))
        => MismatchFields(res.errors)
           = IF OffByMoreThanTolerance(arg.allocationBreakdown, arg.amount)
             THEN {"allocationBreakdown"} ELSE {}
    /\ Done("validateTransferTransaction")
        => MismatchFields(res.errors)
           = (IF OffByMoreThanTolerance(arg.sourceAllocation, arg.amount)
              THEN {"sourceAllocation"} ELSE {})
             \cup (IF OffByMoreThanTolerance(arg.destinationAllocation, arg.amount)
                   THEN {"destinationAllocation"} ELSE {})

\* a transfer whose source total is exactly 0.01 over the amount and whose
\* destination total is 0.015 under it: only the destination is reported
C6_Witness ==
    /\ Done("validateTransferTransaction")
    /\ IsObject(arg.sourceAllocation)
    /\ IsObject(arg.destinationAllocation)
    /\ arg.sourceAllocation.totalAmount - arg.amount = 2
    /\ arg.amount - arg.destinationAllocation.totalAmount = 3
    /\ MismatchFields(res.errors) = {"destinationAllocation"}

(***************************************************************************)
(* Claims about the import pipeline (SpecImport).                          *)
(***************************************************************************)
\* the field checks of the pipeline that a row fails, as (code, field) pairs
FailedChecks(row) ==
    (IF row.date.type # "string" \/ row.date.text = ""
     THEN {Err("IMPORT_MISSING_REQUIRED_FIELD", "date")}
     ELSE IF row.date.text \notin {"2024-01-15", "2024-01-16"}
     THEN {Err("IMPORT_INVALID_DATE", "date")} ELSE {})
    \cup (IF row.description.type = "undefined"
             \/ (row.description.type = "string"
                 /\ row.description.text \in {"", " "})
          THEN {Err("IMPORT_MISSING_REQUIRED_FIELD", "description")} ELSE {})
    \cup (IF row.amount.type \in {"undefined", "null"}
          THEN {Err("IMPORT_MISSING_REQUIRED_FIELD", "amount")}
          ELSE IF row.amount.type # "number" \/ row.amount.num = 0
          THEN {Err("IMPORT_INVALID_AMOUNT", "amount")} ELSE {})
    \cup (IF row.type.text \notin {"income", "expense", "transfer"}
          THEN {Err("IMPORT_MISSING_REQUIRED_FIELD", "type")} ELSE {})
RowPasses(row) == FailedChecks(row) = {}
RowFails(row) == FailedChecks(row) # {}

\* a returned result partitions the rows, in order, by their own checks
IsPartition(rows, result) ==
    /\ result.tag = "object"
    /\ Len(result.valid) + Len(result.invalid) = Len(rows)
    /\ result.valid = SelectSeq(rows, RowPasses)
    /\ [i \in DOMAIN result.invalid |-> result.invalid[i].transaction]
       = SelectSeq(rows, RowFails)
    /\ \A i \in DOMAIN result.invalid :
          /\ Len(result.invalid[i].errors) > 0
          /\ SetOf(result.invalid[i].errors)
             = FailedChecks(result.invalid[i].transaction)
          /\ Len(result.invalid[i].errors)
             = Cardinality(FailedChecks(result.invalid[i].transaction))

\* C7 as stated: validateImportData partitions its input: every row occurs in
\* exactly one of valid and invalid, both lists keep the input order, a row is
\* valid iff none of its field checks fails, an invalid entry carries the
\* non-empty list of every failed check of its row, and the outcome of a row
\* does not depend on the other rows of the batch.
C7_ImportPartition ==
    Done("validateImportData") => IsPartition(arg, res)

\* a batch of a sound row and a row whose description is the number 42: the
\* call ends in a TypeError and no row gets an outcome
C7_Witness ==
    /\ Done("validateImportData")
    /\ Len(arg) = 2
    /\ RowPasses(arg[1])
    /\ arg[1].description.type = "string"
    /\ arg[2].description = JsNumber(42)
    /\ res = Threw

\* C7 for batches whose descriptions are strings or absent: there the result
\* is the partition the claim describes
C7_ImportPartitionOfTextRows ==
    ( /\ Done("validateImportData")
      /\ \A i \in DOMAIN arg : arg[i].description.type \in {"undefined", "string"} )
    => IsPartition(arg, res)

(***************************************************************************)
(* Claims about the error codes of the strategy validator (SpecAllocation).*)
(***************************************************************************)
\* C11 as stated: validateAllocationStrategy reports ALLOCATION_EMPTY for a
\* strategy with no allocations and ALLOCATION_DUPLICATE_POOL for a strategy
\* in which a pool id appears more than once.
C11_StructuralCodes ==
    (Done("validateAllocationStrategy") /\ IsObject(arg) /\ arg.id # "")
    => /\ Len(arg.allocations) = 0 => HasCode(res.errors, "ALLOCATION_EMPTY")
       /\ ~AllDistinct(PoolIdsOf(arg.allocations))
            => HasCode(res.errors, "ALLOCATION_DUPLICATE_POOL")

\* pool1 twice with proportions that sum to 1.0 and no other defect comes back with
\* the shape error alone
C11_Witness ==
    /\ Done("validateAllocationStrategy")
    /\ IsObject(arg)
    /\ arg.id # ""
    /\ PoolIdsOf(arg.allocations) = <<"pool1", "pool1">>
    /\ ProportionsInRange(arg)
    /\ ProportionGap(arg) = 0
    /\ res = Invalid(<<Err("SCHEMA_VALIDATION_FAILED", NoField)>>)

\* C12 as stated: every allocation with proportion < 0 is reported as
\* ALLOCATION_NEGATIVE_AMOUNT and every allocation with proportion > 1.0 as
\* ALLOCATION_SUM_INVALID, both on field allocations.<poolId>.proportion.
C12_ProportionRangeCodes ==
    (Done("validateAllocationStrategy") /\ IsObject(arg) /\ arg.id # "")
    => \A i \in DOMAIN arg.allocations :
          LET a == arg.allocations[i]
              field == "allocations." \o a.poolId \o ".proportion"
          IN  /\ a.proportion < 0
                 => HasErr(res.errors, "ALLOCATION_NEGATIVE_AMOUNT", field)
              /\ a.proportion > ONE
                 => HasErr(res.errors, "ALLOCATION_SUM_INVALID", field)

\* a single allocation of pool1 at 1.5 comes back with the shape error alone
C12_Witness ==
    /\ Done("validateAllocationStrategy")
    /\ IsObject(arg)
    /\ arg.id # ""
    /\ Len(arg.allocations) = 1
    /\ arg.allocations[1] = PoolAllocation("pool1", 30000)
    /\ res = Invalid(<<Err("SCHEMA_VALIDATION_FAILED", NoField)>>)

(***************************************************************************)
(* Claims about the base checks and the shape check of the transaction     *)
(* validators (SpecTransaction).                                           *)
(***************************************************************************)
\* every error of the list part occurs in the list whole
ContainsAll(whole, part) == \A i \in DOMAIN part : \E j \in DOMAIN whole : whole[j] = part[i]

\* what the reconciliation and the nested breakdown check yield for one
\* allocation field of a transaction
AllocationFindings(allocation, amount, field) ==
    IF IsObject(allocation)
    THEN (IF Abs(allocation.totalAmount - amount) > 2
          THEN <<Err("TRANSACTION_ALLOCATION_MISMATCH", field)>> ELSE <<>>)
         \o validateAllocationBreakdown(allocation).errors
    ELSE <<>>

\* C13: in validateIncomeTransaction, validateExpenseTransaction and
\* validateTransferTransaction a failed shape check is not fatal:
\* SCHEMA_VALIDATION_FAILED is appended and the returned errors still contain
\* every error of validateTransaction, of the reconciliation and of the nested
\* validateAllocationBreakdown on the same input; an income with amount <= 0
\* yields both SCHEMA_VALIDATION_FAILED and TRANSACTION_AMOUNT_INVALID.
C13_ShapeCheckNotFatal ==
    /\ Done("validateIncomeTransaction") =>
        /\ ~IncomeTransactionSchema(arg)
            => HasCode(res.errors, "SCHEMA_VALIDATION_FAILED")
        /\ ContainsAll(res.errors, validateTransaction(arg, now).errors)
        /\ ContainsAll(res.errors,
                       AllocationFindings(arg.allocationBreakdown, arg.amount,
                                          "allocationBreakdown"))
        /\ arg.amount <= 0
            => /\ HasCode(res.errors, "SCHEMA_VALIDATION_FAILED")
               /\ HasErr(res.errors, "TRANSACTION_AMOUNT_INVALID", "amount")
    /\ Done("validateExpenseTransaction") =>
        /\ ~ExpenseTransactionSchema(arg)
            => HasCode(res.errors, "SCHEMA_VALIDATION_FAILED")
        /\ ContainsAll(res.errors, validateTransaction(arg, now).errors)
        /\ ContainsAll(res.errors,
                       AllocationFindings(arg.allocationBreakdown, arg.amount,
                                          "allocationBreakdown"))
    /\ Done("validateTransferTransaction") =>
        /\ ~TransferTransactionSchema(arg)
            => HasCode(res.errors, "SCHEMA_VALIDATION_FAILED")
        /\ ContainsAll(res.errors, validateTransaction(arg, now).errors)
        /\ ContainsAll(res.errors,
                       AllocationFindings(arg.sourceAllocation, arg.amount,
                                          "sourceAllocation"))
        /\ ContainsAll(res.errors,
                       AllocationFindings(arg.destinationAllocation, arg.amount,
                                          "destinationAllocation"))

\* an income of -1000 with a future date and a breakdown whose total is not
\* the amount: the shape error, both base errors and the reconciliation error
\* are all returned
C13_Witness ==
    /\ Done("validateIncomeTransaction")
    /\ arg.amount = Dollars(-1000)
    /\ arg.date > now
    /\ IsObject(arg.allocationBreakdown)
    /\ HasCode(res.errors, "SCHEMA_VALIDATION_FAILED")
    /\ HasErr(res.errors, "TRANSACTION_AMOUNT_INVALID", "amount")
    /\ HasErr(res.errors, "TRANSACTION_DATE_INVALID", "date")
    /\ HasErr(res.errors, "TRANSACTION_ALLOCATION_MISMATCH", "allocationBreakdown")

NotesPresent(t) == "notes" \in DOMAIN t /\ t.notes \notin {"", " "}
AmountPositive(t) == "amount" \in DOMAIN t /\ t.amount > 0
DateNotFuture(t, clock) == "date" \in DOMAIN t /\ t.date <= clock

C15_DescriptionDecides ==
    (Done("validateTransaction") /\ "notes" \notin DOMAIN arg) =>
        /\ ( /\ "description" \in DOMAIN arg /\ arg.description # ""
             /\ AmountPositive(arg)
             /\ DateNotFuture(arg, now) )
            => res.isValid
        /\ HasCode(res.errors, "TRANSACTION_DESCRIPTION_EMPTY")
            <=> ~("description" \in DOMAIN arg /\ arg.description # "")

\* the transaction of the test, description "Test transaction" and no notes,
\* is rejected for its missing notes alone
C15_Witness ==
    /\ Done("validateTransaction")
    /\ "notes" \notin DOMAIN arg
    /\ "description" \in DOMAIN arg /\ arg.description = "Test transaction"
    /\ AmountPositive(arg)
    /\ DateNotFuture(arg, now)
    /\ res = Result(<<Err("TRANSACTION_DESCRIPTION_EMPTY", "notes")>>)

\* the source allocation of a transfer is missing or has no item
SourceItemsMissing(t) ==
    ~IsObject(t.sourceAllocation) \/ Len(t.sourceAllocation.items) = 0

\* C16: validateCreditPayment returns every error validateTransferTransaction
\* returns for the same transfer and, in addition, CREDIT_PAYMENT_INVALID_SOURCE
\* on field sourceAllocation if and only if sourceAllocation.items is missing or
\* empty; a credit payment is valid iff the transfer is valid and its source
\* allocation has at least one item.
C16_CreditPayment ==
    Done("validateCreditPayment") =>
        LET transferValidation == validateTransferTransaction(arg, now)
        IN  /\ SubSeq(res.errors, 1, Len(transferValidation.errors))
               = transferValidation.errors
            /\ HasErr(res.errors, "CREDIT_PAYMENT_INVALID_SOURCE", "sourceAllocation")
                <=> SourceItemsMissing(arg)
            /\ Len(res.errors) = Len(transferValidation.errors)
                                 + (IF SourceItemsMissing(arg) THEN 1 ELSE 0)
            /\ res.isValid
                <=> transferValidation.isValid /\ ~SourceItemsMissing(arg)

\* a credit payment whose source allocation has an empty item list carries
\* the errors of the transfer and CREDIT_PAYMENT_INVALID_SOURCE after them
C16_Witness ==
    /\ Done("validateCreditPayment")
    /\ IsObject(arg.sourceAllocation)
    /\ Len(arg.sourceAllocation.items) = 0
    /\ Len(res.errors) > 1
    /\ res.errors[Len(res.errors)]
       = Err("CREDIT_PAYMENT_INVALID_SOURCE", "sourceAllocation")

(***************************************************************************)
(* Claims about the two integrity entry points (SpecIntegrity).            *)
(***************************************************************************)
\* the pool and channel lists a caller may hold: up to two entities, active
\* or not, in any order
AnyEntityLists(ids) == SeqsUpTo([id : ids, isActive : BOOLEAN], 2)

\* an error of the bulk check and the error of the single-record check that
\* stands for the same miss
SameMiss(bulk, single) ==
    /\ bulk.code = "DATA_INTEGRITY_ORPHANED_REFERENCE"
    /\ single.ref = bulk.ref
    /\ single.code = IF bulk.ref \in ChannelIds
                     THEN "TRANSACTION_CHANNEL_NOT_FOUND"
                     ELSE "TRANSACTION_POOL_NOT_FOUND"

\* C17: for every transaction t, pool list P and channel list C,
\* validateTransactionIntegrity(t, ids of the active pools of P, ids of the
\* active channels of C) and validateBudgetIntegrity(P, C, [t], []) return the
\* same isValid and the same number of errors in the same order, each
\* DATA_INTEGRITY_ORPHANED_REFERENCE matching a TRANSACTION_CHANNEL_NOT_FOUND
\* (channel miss) or a TRANSACTION_POOL_NOT_FOUND (pool miss).
C17_IntegrityEquivalence ==
    Done("validateTransactionIntegrity") =>
        \A P \in AnyEntityLists(PoolIds), C \in AnyEntityLists(ChannelIds) :
            ( /\ IdsOfActive(P) = arg.existingPoolIds
              /\ IdsOfActive(C) = arg.existingChannelIds )
            => LET bulk == validateBudgetIntegrity(P, C, <<arg.transaction>>, <<>>)
               IN  /\ bulk.isValid = res.isValid
                   /\ Len(bulk.errors) = Len(res.errors)
                   /\ \A i \in DOMAIN bulk.errors :
                         SameMiss(bulk.errors[i], res.errors[i])

\* a transfer out of a channel that is missing whose destination allocation
\* names the missing pool2 twice: three errors in the single-record check
C17_Witness ==
    /\ Done("validateTransactionIntegrity")
    /\ arg.transaction.type = "transfer"
    /\ arg.existingPoolIds = {"pool1"}
    /\ arg.existingChannelIds = {"channel2"}
    /\ Codes(res.errors) = <<"TRANSACTION_CHANNEL_NOT_FOUND",
                             "TRANSACTION_POOL_NOT_FOUND",
                             "TRANSACTION_POOL_NOT_FOUND">>

\* the errors of an entry of the invalid list that sit on one field
FieldErrors(entry, field) ==
    SelectSeq(entry.errors, LAMBDA e : e.field = field)

\* what C18 prescribes for each field of a row: no error, or the one code
DateDiagnosis(row) ==
    IF row.date.type = "undefined" \/ (row.date.type = "string" /\ row.date.text = "")
    THEN <<"IMPORT_MISSING_REQUIRED_FIELD">>
    ELSE IF row.date.text \notin {"2024-01-15", "2024-01-16"}
    THEN <<"IMPORT_INVALID_DATE">> ELSE <<>>
DescriptionDiagnosis(row) ==
    IF row.description.type = "undefined"
       \/ (row.description.type = "string" /\ row.description.text \in {"", " "})
    THEN <<"IMPORT_MISSING_REQUIRED_FIELD">> ELSE <<>>
AmountDiagnosis(row) ==
    IF row.amount.type \in {"undefined", "null"}
    THEN <<"IMPORT_MISSING_REQUIRED_FIELD">>
    ELSE IF row.amount.type # "number"
    THEN <<"IMPORT_INVALID_AMOUNT">>
    ELSE IF row.amount.num = 0
    THEN <<"IMPORT_INVALID_AMOUNT">> ELSE <<>>
TypeDiagnosis(row) ==
    IF row.type.type = "string" /\ row.type.text \in {"income", "expense", "transfer"}
    THEN <<>> ELSE <<"IMPORT_MISSING_REQUIRED_FIELD">>
Diagnosis(row) ==
    [date |-> DateDiagnosis(row), description |-> DescriptionDiagnosis(row),
     amount |-> AmountDiagnosis(row), type |-> TypeDiagnosis(row)]
Diagnosed(row) ==
    \E f \in {"date", "description", "amount", "type"} : Diagnosis(row)[f] # <<>>

ShapeValidBalance(b) == b.poolId # "" /\ b.channelId # "" /\ b.amount.type = "number"
NegativeBalance(b) == ShapeValidBalance(b) /\ b.amount.num < 0

\* what one balance contributes to the errors of a batch
BalanceFinding(b) ==
    IF ~ShapeValidBalance(b) THEN <<Err("SCHEMA_VALIDATION_FAILED", NoField)>>
    ELSE IF b.amount.num < 0 THEN <<Err("BALANCE_NEGATIVE", "amount")>>
    ELSE <<>>
RECURSIVE BalanceFindings(_)
BalanceFindings(balances) ==
    IF balances = <<>> THEN <<>>
    ELSE BalanceFindings(SubSeq(balances, 1, Len(balances) - 1))
         \o BalanceFinding(balances[Len(balances)])

ShapeValidCurrentBalance(c) ==
    /\ IsObject(c)
    /\ c.id # ""
    /\ \A i \in DOMAIN c.balances : ShapeValidBalance(c.balances[i])
ShapeValidSnapshot(s) ==
    /\ IsObject(s)
    /\ s.id # ""
    /\ s.snapshotDate # NoDate
    /\ \A i \in DOMAIN s.balances : ShapeValidBalance(s.balances[i])

\* C20: for shape-valid input validateCurrentBalance returns exactly the errors
\* of validateBalanceConsistency on the embedded balances, and
\* validateBalanceSnapshot returns those errors preceded by one
\* TRANSACTION_DATE_INVALID on field snapshotDate if and only if snapshotDate is
\* later than the current time; for shape-invalid input both return a single
\* SCHEMA_VALIDATION_FAILED and check nothing else.
C20_BalanceDelegation ==
    /\ Done("validateCurrentBalance") =>
        IF ShapeValidCurrentBalance(arg)
        THEN res = Result(validateBalanceConsistency(arg.balances).errors)
        ELSE res = Invalid(<<Err("SCHEMA_VALIDATION_FAILED", NoField)>>)
    /\ Done("validateBalanceSnapshot") =>
        IF ShapeValidSnapshot(arg)
        THEN res = Result(
                (IF arg.snapshotDate > now
                 THEN <<Err("TRANSACTION_DATE_INVALID", "snapshotDate")>>
                 ELSE <<>>)
                \o validateBalanceConsistency(arg.balances).errors)
        ELSE res = Invalid(<<Err("SCHEMA_VALIDATION_FAILED", NoField)>>)

\* a snapshot dated after the current time with a negative balance: the date
\* error comes first, the balance error after it
C20_Witness ==
    /\ Done("validateBalanceSnapshot")
    /\ ShapeValidSnapshot(arg)
    /\ arg.snapshotDate > now
    /\ Len(arg.balances) >= 1
    /\ res.errors = <<Err("TRANSACTION_DATE_INVALID", "snapshotDate"),
                      Err("BALANCE_NEGATIVE", "amount")>>

C22_PoolChannelBalance ==
    Done("validatePoolChannelBalance") =>
        /\ HasCode(res.errors, "BALANCE_INCONSISTENT")
            <=> \/ arg.expectedAmount - arg.actualAmount > 2
                \/ arg.actualAmount - arg.expectedAmount > 2
        /\ res.isValid <=> ~HasCode(res.errors, "BALANCE_INCONSISTENT")
        /\ res = validatePoolChannelBalance(arg.poolId, arg.channelId,
                                            arg.actualAmount, arg.expectedAmount)

\* an actual amount exactly 0.01 under the expected one is accepted
C22_Witness ==
    /\ Done("validatePoolChannelBalance")
    /\ arg.expectedAmount - arg.actualAmount = 2
    /\ res = Result(<<>>)

C24_SnapshotResult ==
    pc = "done" => Result(res.errors) = Invoke(op, res.started, res.clock)

\* a transfer of 50 with matching allocations between distinct channels is
\* valid when the call starts; its amount is set to 100 while the call awaits
\* validateTransaction, and the call reports both allocations as mismatched
C24_Witness ==
    /\ Done("validateTransferTransaction")
    /\ validateTransferTransaction(res.started, res.clock) = Result(<<>>)
    /\ arg.amount = Dollars(100)
    /\ Codes(res.errors) = <<"TRANSACTION_ALLOCATION_MISMATCH",
                             "TRANSACTION_ALLOCATION_MISMATCH">>

(***************************************************************************)
(* Claims about the model helpers (SpecHelpers).                           *)
(***************************************************************************)
\* C25: normalisation is idempotent: when normalizeAllocationBreakdown
\* accepts a breakdown, normalising its result succeeds and returns that same
\* result, and a breakdown whose items already sum to totalAmount is returned
\* unchanged.
C25_NormalizeIdempotent ==
    Done("normalizeAllocationBreakdown") /\ res # Threw =>
        /\ normalizeAllocationBreakdown(res) = res
        /\ FracSum(arg.items) = arg.totalAmount => res = arg

\* one item of 50 with totalAmount 0 is accepted and normalised to one item of
\* 0; normalising that result throws
C25_Witness ==
    /\ Done("normalizeAllocationBreakdown")
    /\ arg = Breakdown(<<Item("pool1", Frac(Dollars(50), 1))>>, Frac(0, 1))
    /\ res = Breakdown(<<Item("pool1", Frac(0, 1))>>, Frac(0, 1))
    /\ normalizeAllocationBreakdown(res) = Threw

\* the amounts of a payment request are all non-negative
NonNegativeBalances ==
    /\ \A i \in DOMAIN arg.sourceBalances : arg.sourceBalances[i].availableAmount >= 0
    /\ \A i \in DOMAIN arg.destinationDebts : arg.destinationDebts[i].debtAmount >= 0
\* 0 < paymentAmount <= maxPayable
PaymentWithinMax ==
    /\ 0 < arg.paymentAmount
    /\ arg.paymentAmount <= validateCreditCardPayment(arg.paymentAmount,
                                arg.sourceBalances, arg.destinationDebts).maxPayable

\* C27: for non-negative available amounts and debts and a payment within
\* maxPayable, the transfer built by createCreditCardPaymentTransfer has both
\* allocation totals within 0.01 of amount, items summing to the totals, no
\* negative item and no non-positive total, and validateTransferTransaction
\* reports neither TRANSACTION_ALLOCATION_MISMATCH nor
\* ALLOCATION_NEGATIVE_AMOUNT for it.
C27_PaymentPassesTransferChecks ==
    Done("createCreditCardPaymentTransfer") /\ NonNegativeBalances /\ PaymentWithinMax =>
        /\ Abs(res.sourceAllocation.totalAmount - res.amount) <= ALLOCATION_TOLERANCE
        /\ Abs(res.destinationAllocation.totalAmount - res.amount) <= ALLOCATION_TOLERANCE
        /\ SumAmount(res.sourceAllocation.items) = res.sourceAllocation.totalAmount
        /\ SumAmount(res.destinationAllocation.items) = res.destinationAllocation.totalAmount
        /\ \A i \in DOMAIN res.sourceAllocation.items :
              res.sourceAllocation.items[i].amount >= 0
        /\ res.sourceAllocation.totalAmount > 0
        /\ LET codes == Codes(validateTransferTransaction(res, now).errors)
           IN  \A i \in DOMAIN codes :
                  codes[i] \notin {"TRANSACTION_ALLOCATION_MISMATCH",
                                   "ALLOCATION_NEGATIVE_AMOUNT"}

\* a payment of 50 from pool1 (80 available, 50 owed): the source allocation
\* is one item of -50 with total -50, and the transfer validator reports the
\* mismatch of the source total and the negative item and total
C27_Witness ==
    /\ Done("createCreditCardPaymentTransfer")
    /\ NonNegativeBalances /\ PaymentWithinMax
    /\ arg.paymentAmount = Dollars(50)
    /\ res.sourceAllocation = Breakdown(<<Item("pool1", Dollars(-50))>>, Dollars(-50))
    /\ res.destinationAllocation = Breakdown(<<Item("pool1", Dollars(50))>>, Dollars(50))
    /\ HasErr(validateTransferTransaction(res, now).errors,
              "TRANSACTION_ALLOCATION_MISMATCH", "sourceAllocation")
    /\ HasErr(validateTransferTransaction(res, now).errors,
              "ALLOCATION_NEGATIVE_AMOUNT", "items.pool1.amount")
    /\ HasErr(validateTransferTransaction(res, now).errors,
              "ALLOCATION_NEGATIVE_AMOUNT", "totalAmount")

\* the pool ids of the balances and of the debts are pairwise distinct
DistinctPools ==
    /\ AllDistinct(PoolIdsOf(arg.sourceBalances))
    /\ AllDistinct(PoolIdsOf(arg.destinationDebts))
\* calculateMaxCreditPayment on a source allocation that lists the pools of the
\* source balances, with the maps built from the balances and the debts
MaxCreditPaymentOfBalances ==
    calculateMaxCreditPayment(
        Breakdown([i \in DOMAIN arg.sourceBalances |->
                      Item(arg.sourceBalances[i].poolId, Dollars(100))],
                  Dollars(100) * Len(arg.sourceBalances)),
        MapOf(arg.sourceBalances, "availableAmount"),
        MapOf(arg.destinationDebts, "debtAmount"))

\* C28: for balances and debts with pairwise-distinct pool ids and amounts of
\* either sign, maxPayable of validateCreditCardPayment equals maxAmount of
\* calculateMaximumPayableAmount, and both equal calculateMaxCreditPayment on
\* the pools of the source balances.
C28_MaxPayableAgree ==
    Done("validateCreditCardPayment") /\ DistinctPools =>
        /\ res.maxPayable = calculateMaximumPayableAmount(arg.sourceBalances,
                                arg.destinationDebts).maxAmount
        /\ res.maxPayable = MaxCreditPaymentOfBalances

\* pool1 is overdrawn by 50 and owes 50: the helper reports a maximum of -50,
\* the service a maximum of 0
C28_Witness ==
    /\ Done("validateCreditCardPayment")
    /\ arg.sourceBalances = <<[poolId |-> "pool1", availableAmount |-> Dollars(-50)]>>
    /\ arg.destinationDebts = <<[poolId |-> "pool1", debtAmount |-> Dollars(50)]>>
    /\ res.maxPayable = Dollars(-50)
    /\ calculateMaximumPayableAmount(arg.sourceBalances,
                                     arg.destinationDebts).maxAmount = Dollars(-50)
    /\ MaxCreditPaymentOfBalances = 0


\* C26: in every ValidationResult that a validator returns, on every return
\* path, isValid is true exactly when errors is empty (calculateMaxCreditPayment
\* returns a number and validateImportData a { valid, invalid } pair).
C26_ValidIffNoErrors ==
    \A i \in DOMAIN res :
        op \notin {"calculateMaxCreditPayment", "validateImportData"}
        /\ res[i].result # Threw
        => (res[i].result.isValid <=> Len(res[i].result.errors) = 0)

\* the early return of a failed shape check: a strategy without allocations is
\* returned as invalid with the one schema error
C26_Witness ==
    /\ op = "validateAllocationStrategy"
    /\ Len(res) = 2
    /\ IsObject(arg) /\ arg.allocations = <<>>
    /\ ~res[1].result.isValid
    /\ Codes(res[1].result.errors) = <<"SCHEMA_VALIDATION_FAILED">>

(***************************************************************************)
(* Claims about the balance updates (SpecLedger).                          *)
(***************************************************************************)
\* C29: updateBalanceAfterTransaction leaves its arguments unchanged: after
\* the call the list it was given has the same length and each of its
\* PoolBalance objects holds the amount it held before, and a second
\* application to the same list returns what the first returned.
C29_ArgumentsUnchanged ==
    res.calls > 0 =>
        LET after == Values(arg.heap, res.currentBalances)
            again == updateBalanceAfterTransaction(arg.heap, res.currentBalances,
                         res.poolAllocations, "channel1", res.destinationChannelId)
        IN  /\ Len(after) = Len(res.before)
            /\ \A i \in DOMAIN after : after[i].amount = res.before[i].amount
            /\ Values(again.heap, again.updatedBalances) = res.returned

\* an expense of 50 from pool1 on channel1, which holds 100: the object of the
\* list that was passed holds 50 after the call, and a second application
\* returns 0
C29_Witness ==
    /\ res.calls = 1
    /\ res.before = <<[poolId |-> "pool1", channelId |-> "channel1",
                       amount |-> Dollars(100)]>>
    /\ res.poolAllocations = <<Item("pool1", Dollars(-50))>>
    /\ res.destinationChannelId = NoChannel
    /\ Values(arg.heap, res.currentBalances)[1].amount = Dollars(50)
    /\ LET again == updateBalanceAfterTransaction(arg.heap, res.currentBalances,
                        res.poolAllocations, "channel1", NoChannel)
       IN  Values(again.heap, again.updatedBalances)[1].amount = 0

\* C30: transfers conserve money: after any sequence of
\* updateBalanceAfterTransaction calls made with a destinationChannelId, the
\* sum of the amounts of the resulting list equals the sum of the initial
\* list, for allocation amounts of either sign.
C30_TransfersConserve ==
    res.transfersOnly =>
        calculateNetWorth(Values(arg.heap, arg.currentBalances)) = res.initial

\* a transfer of 50 of pool1 from channel1 to channel2, the amount being
\* positive as validateTransferTransaction requires: both channels gain 50 and
\* the total grows from 100 to 200
C30_Witness ==
    /\ res.calls = 1
    /\ res.transfersOnly
    /\ res.poolAllocations = <<Item("pool1", Dollars(50))>>
    /\ res.initial = Dollars(100)
    /\ res.returned = <<[poolId |-> "pool1", channelId |-> "channel1",
                         amount |-> Dollars(150)],
                        [poolId |-> "pool1", channelId |-> "channel2",
                         amount |-> Dollars(50)]>>
    /\ calculateNetWorth(res.returned) = Dollars(200)
====
